---- MODULE Spec2Model ----
(***************************************************************************)
(* Workspace-scoped secrets authority (nebula / tessera).                  *)
(*                                                                         *)
(* Part 1: the path tree.  PathUseCaseImpl (application/path/mod.rs) runs  *)
(* every operation in one scoped transaction: begin, service / aggregate   *)
(* calls, persist, commit; every `?` returns early and drops the           *)
(* transaction, which rolls it back.  The SecretService and the Path       *)
(* aggregate (domain::secret) are modelled from their specification.       *)
(*                                                                         *)
(* A path string is modelled as the sequence of its segments:              *)
(* "/" is <<>>, "/a/b" is <<"a","b">>; an empty segment (as in "/a//b" or  *)
(* "/a/") makes the path invalid.  An Option<T> is a set with at most one  *)
(* element.  A table is the bag of its rows without their ULID primary     *)
(* keys: two rows that differ only in their key are two copies of one      *)
(* element.                                                                *)
(***************************************************************************)
EXTENDS Integers, Sequences, FiniteSets, Bags, TLC

VARIABLES db, last, ps, ws, bs, fs, pt

vars == <<db, last, ps, ws, bs, fs, pt>>

\* ---------------------------------------------------------------- bounds
MaxDepth == 2      \* longest path entered or stored (segments)
MaxRows == 4       \* rows the path table may hold before register is withheld
MaxSecrets == 1    \* rows the secret_metadata table may hold
MaxPolicies == 2   \* ids (ULIDs) the policy table may draw from
MaxTx == 2         \* transactions the connection pool has open at a time

\* segment names the callers enter: two at the top level, one below it
Segs == {"a", "b"}
SubSegs == {"b"}
Root == <<>>

RECURSIVE PathsOfLen(_)
PathsOfLen(n) ==
    IF n = 0 THEN {Root}
    ELSE {Append(p, s) : p \in PathsOfLen(n - 1),
                         s \in IF n = 1 THEN Segs ELSE SubSegs}

ValidPaths == UNION {PathsOfLen(n) : n \in 0..MaxDepth}
InvalidPaths == {<<"a", "">>}
PathInputs == ValidPaths \cup InvalidPaths

Policies == {"p1"}
\* a policy list as entered: empty, or one whose expression does not parse
PolicyInputs == {{}, {"bad"}}
\* a claim: its role and the policies its attributes satisfy
Claims == {[role |-> "Member", sat |-> {}]}
VaultNames == {"v1"}
Keys == {"k"}

\* where an infrastructure (database) error strikes, if anywhere
Faults == {"none", "begin", "service", "persist", "commit"}
ReadFaults == {"none", "begin", "service", "commit"}

\* Option<&str> and Option<&[AppliedPolicy]> as entered
NewPathInputs == {{}} \cup {{q} : q \in ValidPaths}
NewPolicyInputs == {{}} \cup {{q} : q \in PolicyInputs}

\* update as entered: a change of name, a change of policies or both, and a
\* fault at each step of an update that changes at most the name
UpdateInputs ==
    {[new_path |-> n, new_policies |-> {}, fault |-> f] :
        n \in NewPathInputs, f \in {"none", "persist"}}
    \cup {[new_path |-> {}, new_policies |-> s, fault |-> "none"] :
            s \in NewPolicyInputs}
    \cup {[new_path |-> {Root}, new_policies |-> s, fault |-> "none"] :
            s \in NewPolicyInputs}
    \cup {[new_path |-> {}, new_policies |-> {}, fault |-> f] :
            f \in {"begin", "service", "commit"}}

\* ------------------------------------------------------------ path strings
Parent(p) == SubSeq(p, 1, Len(p) - 1)

\* q lies strictly below p
IsUnder(p, q) == Len(p) < Len(q) /\ SubSeq(q, 1, Len(p)) = p

\* q with its prefix old replaced by new
Rebase(old, new, q) == new \o SubSeq(q, Len(old) + 1, Len(q))

validate_path(p) == \A i \in 1..Len(p) : p[i] # ""

\* ------------------------------------------------------------------ errors
\* a result: its kind, the entered_path it carries (if any), its message
OkRes == [kind |-> "Ok", entered |-> {}, msg |-> ""]
Err(kind) == [kind |-> kind, entered |-> {}, msg |-> kind]
ErrAt(kind, p) == [kind |-> kind, entered |-> {p}, msg |-> kind]
DbErr == [kind |-> "Anyhow", entered |-> {}, msg |-> "db error"]

\* ----------------------------------------------- domain::secret (service)
StoredPaths(d) == {r.path : r \in BagToSet(d.paths)}

\* Admin satisfies every policy; a member must satisfy each one
Satisfies(claim, policies) == claim.role = "Admin" \/ policies \subseteq claim.sat

PoliciesAt(d, p) ==
    UNION {r.policies : r \in {x \in BagToSet(d.paths) : x.path = p}}
AncestorPolicies(d, p) ==
    UNION {r.policies : r \in {x \in BagToSet(d.paths) : IsUnder(x.path, p)}}

ensure_parent_path_exists(d, p) == p = Root \/ Parent(p) \in StoredPaths(d)
ensure_path_not_duplicated(d, p) == p \notin StoredPaths(d)
validate_policies(policies) == policies \subseteq Policies

count_child_paths(d, p) ==
    LET children == {r \in DOMAIN d.paths : r.path # Root /\ Parent(r.path) = p}
    IN BagCardinality([r \in children |-> d.paths[r]])
count_child_secrets(d, p) == Cardinality({s \in d.secrets : s.path = p})

get_paths(d) == d.paths
\* the rows a lookup by path string may return (one of them is taken)
get_path(d, p) == {r \in BagToSet(d.paths) : r.path = p}

\* SecretService::register_path: [err, db]; a database error strikes between
\* the insert of the path row and the insert of its applied policies
register_path(d, p, policies, claim, fault) ==
    IF ~validate_path(p) THEN [err |-> ErrAt("InvalidPath", p), db |-> d]
    ELSE IF ~ensure_parent_path_exists(d, p)
        THEN [err |-> ErrAt("ParentPathNotExists", p), db |-> d]
    ELSE IF ~validate_policies(policies)
        THEN [err |-> Err("InvalidPathPolicy"), db |-> d]
    ELSE IF ~ensure_path_not_duplicated(d, p)
        THEN [err |-> ErrAt("PathDuplicated", p), db |-> d]
    ELSE IF ~Satisfies(claim, AncestorPolicies(d, p))
        THEN [err |-> Err("AccessDenied"), db |-> d]
    ELSE IF fault = "service"
        THEN [err |-> DbErr,
              db |-> [d EXCEPT !.paths =
                        @ (+) SetToBag({[path |-> p, policies |-> {}]})]]
    ELSE [err |-> OkRes,
          db |-> [d EXCEPT !.paths =
                    @ (+) SetToBag({[path |-> p, policies |-> policies]})]]

\* ------------------------------------------- domain::secret (Path aggregate)
Path_new(p, policies) ==
    [path |-> p, applied_policies |-> policies,
     updated_path |-> {}, updated_policies |-> {}, deleted |-> FALSE]

Path_from(row) == Path_new(row.path, row.policies)

\* Path::delete: the in-use rule, then the tombstone
Path_delete(d, agg, claim) ==
    IF count_child_paths(d, agg.path) > 0 \/ count_child_secrets(d, agg.path) > 0
    THEN [err |-> ErrAt("PathIsInUse", agg.path), agg |-> agg]
    ELSE [err |-> OkRes, agg |-> [agg EXCEPT !.deleted = TRUE]]

\* Path::update_path: the old and the new parent are loaded with their applied
\* policies (the new one must exist, the claim must satisfy both), then the
\* rows that already carry the new name are counted
Path_update_path(d, agg, new_path, claim) ==
    IF ~ensure_parent_path_exists(d, new_path)
        THEN [err |-> ErrAt("ParentPathNotExists", new_path), agg |-> agg]
    ELSE IF ~Satisfies(claim,
                (IF agg.path = Root THEN {} ELSE PoliciesAt(d, Parent(agg.path)))
                \cup (IF new_path = Root THEN {} ELSE PoliciesAt(d, Parent(new_path))))
        THEN [err |-> Err("AccessDenied"), agg |-> agg]
    ELSE IF ~ensure_path_not_duplicated(d, new_path)
        THEN [err |-> ErrAt("PathDuplicated", new_path), agg |-> agg]
    ELSE [err |-> OkRes, agg |-> [agg EXCEPT !.updated_path = {new_path}]]

\* Path::update_policies: every expression is validated again, then staged
Path_update_policies(d, agg, new_policies, claim) ==
    IF ~validate_policies(new_policies)
        THEN [err |-> Err("InvalidPathPolicy"), agg |-> agg]
    ELSE IF ~Satisfies(claim,
                IF agg.path = Root THEN {} ELSE PoliciesAt(d, Parent(agg.path)))
        THEN [err |-> Err("AccessDenied"), agg |-> agg]
    ELSE [err |-> OkRes, agg |-> [agg EXCEPT !.updated_policies = {new_policies}]]

\* the row the aggregate was loaded from, and that row with the staged policies
Row(agg) == [path |-> agg.path, policies |-> agg.applied_policies]
StagedRow(agg) ==
    IF agg.updated_policies = {} THEN Row(agg)
    ELSE [Row(agg) EXCEPT !.policies = CHOOSE s \in agg.updated_policies : TRUE]

\* the statements of Path::persist, in order: the DELETE of a tombstone by its
\* id; else the applied policies, the path's own row (by id), then the rows
\* below it
persist_policies(d, agg) ==
    IF agg.updated_policies = {} THEN d
    ELSE [d EXCEPT !.paths = (@ (-) SetToBag({Row(agg)}))
                                (+) SetToBag({StagedRow(agg)})]

\* the UPDATE of the path's own row
persist_own_row(d, agg) ==
    IF agg.updated_path = {} THEN d
    ELSE LET new == CHOOSE n \in agg.updated_path : TRUE
         IN [d EXCEPT !.paths = (@ (-) SetToBag({StagedRow(agg)}))
                        (+) SetToBag({[StagedRow(agg) EXCEPT !.path = new]})]

\* the UPDATEs of the rows selected below the old name (child paths) and of
\* the secret metadata at or below it: each moves with the prefix
persist_children(d0, d, agg) ==
    IF agg.updated_path = {} THEN d
    ELSE LET new == CHOOSE n \in agg.updated_path : TRUE
             below == {r \in BagToSet(d0.paths) : IsUnder(agg.path, r.path)}
             Set(r) == IF r \in below
                       THEN [r EXCEPT !.path = Rebase(agg.path, new, r.path)] ELSE r
             Move(q) == IF q = agg.path \/ IsUnder(agg.path, q)
                        THEN Rebase(agg.path, new, q) ELSE q
         IN [d EXCEPT
               !.paths = BagOfAll(Set, @),
               !.secrets = {[x EXCEPT !.path = Move(x.path)] : x \in @}]

\* Path::persist: [err, db]; a database error strikes after the path's own
\* row is written and before the rows below it are
Path_persist(d, agg, fault) ==
    IF agg.deleted
    THEN IF fault = "persist" THEN [err |-> DbErr, db |-> d]
         ELSE [err |-> OkRes,
               db |-> [d EXCEPT !.paths = @ (-) SetToBag({Row(agg)})]]
    ELSE LET d1 == persist_policies(d, agg)
         IN IF fault = "persist"
            THEN [err |-> DbErr, db |-> persist_own_row(d1, agg)]
            ELSE [err |-> OkRes,
                  db |-> persist_children(d, persist_own_row(d1, agg), agg)]

\* SecretUseCase (not part of the path use-case): a secret is stored under
\* an existing path
register_secret(d, key, p) ==
    [d EXCEPT !.secrets = @ \cup {[key |-> key, path |-> p]}]

\* Selector::one(): none, or one of the matching rows
one(rows) == IF rows = {} THEN {{}} ELSE {{r} : r \in rows}

\* VaultService::create: [err, db]; the insert, or a service error after it
VaultService_create(d, name, fault) ==
    [err |-> IF fault = "service" THEN Err("VaultServiceError") ELSE OkRes,
     db |-> [d EXCEPT !.vaults = @ \cup {name}]]

\* ------------------------------------------------ application::path (use-case)
\* a conversion that names the missing parent instead of the path entered
ErrorFrom_naming_parent(e) ==
    IF e.kind = "ParentPathNotExists"
        THEN [kind |-> e.kind, entered |-> {Parent(q) : q \in e.entered},
              msg |-> e.msg]
    ELSE IF e.kind \in {"InvalidPath", "PathDuplicated", "PathIsInUse"}
        THEN [kind |-> e.kind, entered |-> e.entered, msg |-> e.msg]
    ELSE IF e.kind \in {"InvalidPathPolicy", "AccessDenied"}
        THEN [kind |-> e.kind, entered |-> {}, msg |-> e.msg]
    ELSE [kind |-> "Anyhow", entered |-> {}, msg |-> e.msg]

\* a conversion that hands every error of the service on as it is
ErrorFrom_as_it_is(e) == e

\* impl From<secret::Error> for Error
ErrorFrom(e) ==
    IF e.kind \in {"InvalidPath", "ParentPathNotExists", "PathDuplicated", "PathIsInUse"}
        THEN [kind |-> e.kind, entered |-> e.entered, msg |-> e.msg]
    ELSE IF e.kind \in {"InvalidPathPolicy", "AccessDenied"}
        THEN [kind |-> e.kind, entered |-> {}, msg |-> e.msg]
    ELSE [kind |-> "Anyhow", entered |-> {}, msg |-> e.msg]

\* impl From<sea_orm::DbErr> for Error
ErrorFromDbErr(e) == [kind |-> "Anyhow", entered |-> {}, msg |-> e.msg]

\* what an operation leaves behind: its result, the rows as its transaction
\* saw them last, the calls it made in order, and whether the commit went through
Outcome(res, tx, calls, committed) ==
    [result |-> res, tx |-> tx, calls |-> calls, committed |-> committed]

\* transaction.commit().await?; Ok(..)
commit(tx, calls, fault) ==
    IF fault = "commit"
    THEN Outcome(ErrorFromDbErr(DbErr), tx, Append(calls, "commit"), FALSE)
    ELSE Outcome(OkRes, tx, Append(calls, "commit"), TRUE)

get_all(d, fault) ==
    IF fault = "begin" THEN Outcome(ErrorFromDbErr(DbErr), d, <<"begin">>, FALSE)
    ELSE IF fault = "service"
        THEN Outcome(ErrorFrom(DbErr), d, <<"begin", "get_paths">>, FALSE)
    ELSE commit(d, <<"begin", "get_paths">>, fault)

\* a register that commits before it looks at the service's result
register_committing_first(d, p, policies, claim, fault) ==
    IF fault = "begin" THEN Outcome(ErrorFromDbErr(DbErr), d, <<"begin">>, FALSE)
    ELSE LET r == register_path(d, p, policies, claim, fault)
             c == <<"begin", "register_path", "commit">>
         IN IF fault = "commit" THEN Outcome(ErrorFromDbErr(DbErr), r.db, c, FALSE)
            ELSE IF r.err.kind # "Ok" THEN Outcome(ErrorFrom(r.err), r.db, c, TRUE)
            ELSE Outcome(OkRes, r.db, c, TRUE)

register(d, p, policies, claim, fault) ==
    IF fault = "begin" THEN Outcome(ErrorFromDbErr(DbErr), d, <<"begin">>, FALSE)
    ELSE LET r == register_path(d, p, policies, claim, fault)
         IN IF r.err.kind # "Ok"
            THEN Outcome(ErrorFrom(r.err), r.db, <<"begin", "register_path">>, FALSE)
            ELSE commit(r.db, <<"begin", "register_path">>, fault)

\* a delete that drops the result of path.delete and marks the tombstone itself
delete_ignoring_in_use(d, found, p, claim, fault) ==
    IF fault = "begin" THEN Outcome(ErrorFromDbErr(DbErr), d, <<"begin">>, FALSE)
    ELSE IF fault = "service"
        THEN Outcome(ErrorFrom(DbErr), d, <<"begin", "get_path">>, FALSE)
    ELSE IF found = {}
        THEN Outcome(ErrAt("PathNotExists", p), d, <<"begin", "get_path">>, FALSE)
    ELSE LET agg == [Path_from(CHOOSE r \in found : TRUE) EXCEPT !.deleted = TRUE]
             r2 == Path_persist(d, agg, fault)
             c2 == <<"begin", "get_path", "delete", "persist">>
         IN IF r2.err.kind # "Ok"
            THEN Outcome(ErrorFrom(r2.err), r2.db, c2, FALSE)
            ELSE commit(r2.db, c2, fault)

\* a delete that takes a missing path as already deleted
delete_missing_ok(d, found, p, claim, fault) ==
    IF fault = "begin" THEN Outcome(ErrorFromDbErr(DbErr), d, <<"begin">>, FALSE)
    ELSE IF fault = "service"
        THEN Outcome(ErrorFrom(DbErr), d, <<"begin", "get_path">>, FALSE)
    ELSE IF found = {}
        THEN commit(d, <<"begin", "get_path">>, fault)
    ELSE LET agg == Path_from(CHOOSE r \in found : TRUE)
             r1 == Path_delete(d, agg, claim)
             c1 == <<"begin", "get_path", "delete">>
         IN IF r1.err.kind # "Ok" THEN Outcome(ErrorFrom(r1.err), d, c1, FALSE)
            ELSE LET r2 == Path_persist(d, r1.agg, fault)
                     c2 == Append(c1, "persist")
                 IN IF r2.err.kind # "Ok"
                    THEN Outcome(ErrorFrom(r2.err), r2.db, c2, FALSE)
                    ELSE commit(r2.db, c2, fault)

delete(d, found, p, claim, fault) ==
    IF fault = "begin" THEN Outcome(ErrorFromDbErr(DbErr), d, <<"begin">>, FALSE)
    ELSE IF fault = "service"
        THEN Outcome(ErrorFrom(DbErr), d, <<"begin", "get_path">>, FALSE)
    ELSE IF found = {}
        THEN Outcome(ErrAt("PathNotExists", p), d, <<"begin", "get_path">>, FALSE)
    ELSE LET agg == Path_from(CHOOSE r \in found : TRUE)
             r1 == Path_delete(d, agg, claim)
             c1 == <<"begin", "get_path", "delete">>
         IN IF r1.err.kind # "Ok" THEN Outcome(ErrorFrom(r1.err), d, c1, FALSE)
            ELSE LET r2 == Path_persist(d, r1.agg, fault)
                     c2 == Append(c1, "persist")
                 IN IF r2.err.kind # "Ok"
                    THEN Outcome(ErrorFrom(r2.err), r2.db, c2, FALSE)
                    ELSE commit(r2.db, c2, fault)

\* an update that stages the new name without asking the aggregate
update_unchecked_rename(d, found, p, new_path, new_policies, claim, fault) ==
    IF fault = "begin" THEN Outcome(ErrorFromDbErr(DbErr), d, <<"begin">>, FALSE)
    ELSE IF fault = "service"
        THEN Outcome(ErrorFrom(DbErr), d, <<"begin", "get_path">>, FALSE)
    ELSE IF found = {}
        THEN Outcome(ErrAt("PathNotExists", p), d, <<"begin", "get_path">>, FALSE)
    ELSE LET agg == Path_from(CHOOSE r \in found : TRUE)
             c1 == <<"begin", "get_path">>
             r1 == [err |-> OkRes, agg |-> [agg EXCEPT !.updated_path = new_path]]
             r2 == IF new_policies = {} THEN [err |-> OkRes, agg |-> r1.agg]
                   ELSE Path_update_policies(d, r1.agg,
                            CHOOSE n \in new_policies : TRUE, claim)
             c2 == IF new_policies = {} THEN c1 ELSE Append(c1, "update_policies")
         IN IF r2.err.kind # "Ok" THEN Outcome(ErrorFrom(r2.err), d, c2, FALSE)
            ELSE LET r3 == Path_persist(d, r2.agg, fault)
                     c3 == Append(c2, "persist")
                 IN IF r3.err.kind # "Ok"
                    THEN Outcome(ErrorFrom(r3.err), r3.db, c3, FALSE)
                    ELSE commit(r3.db, c3, fault)

\* an update that commits what persist wrote before it failed
update_commit_on_persist_error(d, found, p, new_path, new_policies, claim, fault) ==
    IF fault = "begin" THEN Outcome(ErrorFromDbErr(DbErr), d, <<"begin">>, FALSE)
    ELSE IF fault = "service"
        THEN Outcome(ErrorFrom(DbErr), d, <<"begin", "get_path">>, FALSE)
    ELSE IF found = {}
        THEN Outcome(ErrAt("PathNotExists", p), d, <<"begin", "get_path">>, FALSE)
    ELSE LET agg == Path_from(CHOOSE r \in found : TRUE)
             c0 == <<"begin", "get_path">>
             r1 == IF new_path = {} THEN [err |-> OkRes, agg |-> agg]
                   ELSE Path_update_path(d, agg, CHOOSE n \in new_path : TRUE, claim)
             c1 == IF new_path = {} THEN c0 ELSE Append(c0, "update_path")
         IN IF r1.err.kind # "Ok" THEN Outcome(ErrorFrom(r1.err), d, c1, FALSE)
            ELSE LET r2 == IF new_policies = {} THEN [err |-> OkRes, agg |-> r1.agg]
                           ELSE Path_update_policies(d, r1.agg,
                                    CHOOSE n \in new_policies : TRUE, claim)
                     c2 == IF new_policies = {} THEN c1
                           ELSE Append(c1, "update_policies")
                 IN IF r2.err.kind # "Ok" THEN Outcome(ErrorFrom(r2.err), d, c2, FALSE)
                    ELSE LET r3 == Path_persist(d, r2.agg, fault)
                             c3 == Append(c2, "persist")
                         IN IF r3.err.kind # "Ok"
                            THEN Outcome(ErrorFrom(r3.err), r3.db,
                                         Append(c3, "commit"), TRUE)
                            ELSE commit(r3.db, c3, fault)

update(d, found, p, new_path, new_policies, claim, fault) ==
    IF fault = "begin" THEN Outcome(ErrorFromDbErr(DbErr), d, <<"begin">>, FALSE)
    ELSE IF fault = "service"
        THEN Outcome(ErrorFrom(DbErr), d, <<"begin", "get_path">>, FALSE)
    ELSE IF found = {}
        THEN Outcome(ErrAt("PathNotExists", p), d, <<"begin", "get_path">>, FALSE)
    ELSE LET agg == Path_from(CHOOSE r \in found : TRUE)
             c0 == <<"begin", "get_path">>
             r1 == IF new_path = {} THEN [err |-> OkRes, agg |-> agg]
                   ELSE Path_update_path(d, agg, CHOOSE n \in new_path : TRUE, claim)
             c1 == IF new_path = {} THEN c0 ELSE Append(c0, "update_path")
         IN IF r1.err.kind # "Ok" THEN Outcome(ErrorFrom(r1.err), d, c1, FALSE)
            ELSE LET r2 == IF new_policies = {} THEN [err |-> OkRes, agg |-> r1.agg]
                           ELSE Path_update_policies(d, r1.agg,
                                    CHOOSE n \in new_policies : TRUE, claim)
                     c2 == IF new_policies = {} THEN c1
                           ELSE Append(c1, "update_policies")
                 IN IF r2.err.kind # "Ok" THEN Outcome(ErrorFrom(r2.err), d, c2, FALSE)
                    ELSE LET r3 == Path_persist(d, r2.agg, fault)
                             c3 == Append(c2, "persist")
                         IN IF r3.err.kind # "Ok"
                            THEN Outcome(ErrorFrom(r3.err), r3.db, c3, FALSE)
                            ELSE commit(r3.db, c3, fault)

\* a get that commits before it unwraps the row
get_committing_first(d, found, p, fault) ==
    IF fault = "begin" THEN Outcome(ErrorFromDbErr(DbErr), d, <<"begin">>, FALSE)
    ELSE IF fault = "service"
        THEN Outcome(ErrorFrom(DbErr), d, <<"begin", "get_path">>, FALSE)
    ELSE IF fault = "commit"
        THEN Outcome(ErrorFromDbErr(DbErr), d, <<"begin", "get_path", "commit">>, FALSE)
    ELSE IF found = {}
        THEN Outcome(ErrAt("PathNotExists", p), d,
                     <<"begin", "get_path", "commit">>, TRUE)
    ELSE Outcome(OkRes, d, <<"begin", "get_path", "commit">>, TRUE)

get(d, found, p, fault) ==
    IF fault = "begin" THEN Outcome(ErrorFromDbErr(DbErr), d, <<"begin">>, FALSE)
    ELSE IF fault = "service"
        THEN Outcome(ErrorFrom(DbErr), d, <<"begin", "get_path">>, FALSE)
    ELSE IF found = {}
        THEN Outcome(ErrAt("PathNotExists", p), d, <<"begin", "get_path">>, FALSE)
    ELSE commit(d, <<"begin", "get_path">>, fault)

\* ----------------------------------------------- application::vault (use-case)
\* impl From<VaultServiceError> for Error: unreachable!()
VaultErrorFrom(e) == [kind |-> "Panic", entered |-> {}, msg |-> "unreachable"]

create(d, name, fault) ==
    IF fault = "begin" THEN Outcome(DbErr, d, <<"begin">>, FALSE)
    ELSE LET r == VaultService_create(d, name, fault)
         IN IF r.err.kind # "Ok"
            THEN Outcome(VaultErrorFrom(r.err), r.db, <<"begin", "create">>, FALSE)
            ELSE commit(r.db, <<"begin", "create">>, fault)

\* ------------------------------------------------ domain::policy (policies)
PolicyIds == 1..MaxPolicies
PolicyNames == {"test1", "test2"}

\* an expression is the sequence of its tokens
FrontendExpr == <<"(", "role=FRONTEND@A", ")">>
BackendExpr == <<"(", "role=BACKEND@A", ")">>
UnbalancedExpr == <<"(", "role=FRONTEND@A">>
ExpressionInputs == {FrontendExpr, BackendExpr, UnbalancedExpr}

\* where a database error strikes in a policy operation, if anywhere
PolicyFaults == {"none", "count", "write"}

\* nebula_policy::pest::parse (HumanPolicy): an attribute predicate, or an
\* expression in parentheses
RECURSIVE Parses(_)
Parses(e) ==
    IF Len(e) = 0 THEN FALSE
    ELSE IF Len(e) = 1 THEN e[1] \notin {"(", ")"}
    ELSE e[1] = "(" /\ e[Len(e)] = ")" /\ Parses(SubSeq(e, 2, Len(e) - 1))

\* impl From<sea_orm::DbErr> for Error (policy)
PolicyErrorFromDbErr(e) == [kind |-> "Anyhow", entered |-> {}, msg |-> e.msg]

\* the unique index on policy.name rejects a second row of that name
UniqueViolation ==
    [kind |-> "Anyhow", entered |-> {}, msg |-> "duplicate key value"]
NameTaken(rows, id, name) == \E r \in rows : r.id # id /\ r.name = name

validate_expression(expression) ==
    IF Parses(expression) THEN OkRes ELSE Err("InvalidExpression")

\* a check that lets a second row of the name through
ensure_policy_name_at_most_one(rows, policy_name, fault) ==
    LET stmts == <<[stmt |-> "COUNT", name |-> policy_name]>>
    IN IF fault = "count"
       THEN [err |-> PolicyErrorFromDbErr(DbErr), stmts |-> stmts]
       ELSE IF Cardinality({r \in rows : r.name = policy_name}) > 1
       THEN [err |-> ErrAt("PolicyNameDuplicated", policy_name), stmts |-> stmts]
       ELSE [err |-> OkRes, stmts |-> stmts]

\* [err, stmts]: the COUNT of the rows that carry the name
ensure_policy_name_not_duplicated(rows, policy_name, fault) ==
    LET stmts == <<[stmt |-> "COUNT", name |-> policy_name]>>
    IN IF fault = "count"
       THEN [err |-> PolicyErrorFromDbErr(DbErr), stmts |-> stmts]
       ELSE IF Cardinality({r \in rows : r.name = policy_name}) > 0
       THEN [err |-> ErrAt("PolicyNameDuplicated", policy_name), stmts |-> stmts]
       ELSE [err |-> OkRes, stmts |-> stmts]

AccessCondition_new(id, name, expression) ==
    [id |-> id, name |-> name, expression |-> expression,
     updated_name |-> {}, updated_expression |-> {}, deleted |-> FALSE]

\* impl From<policy::Model> for AccessCondition
AccessCondition_from(row) == AccessCondition_new(row.id, row.name, row.expression)

\* AccessCondition::update_name that renames at once instead of staging
update_name_renaming_now(agg, new_name) ==
    IF agg.name = new_name \/ agg.updated_name = {new_name} THEN agg
    ELSE [agg EXCEPT !.name = new_name]

\* AccessCondition::update_name without its early return
update_name_always_staging(agg, new_name) ==
    [agg EXCEPT !.updated_name = {new_name}]

AccessCondition_update_name(agg, new_name) ==
    IF agg.name = new_name \/ agg.updated_name = {new_name} THEN agg
    ELSE [agg EXCEPT !.updated_name = {new_name}]

\* AccessCondition::update_expression that stages before it validates
update_expression_staging_first(agg, new_expression) ==
    LET staged == IF agg.expression = new_expression
                     \/ agg.updated_expression = {new_expression}
                  THEN agg
                  ELSE [agg EXCEPT !.updated_expression = {new_expression}]
    IN [err |-> validate_expression(new_expression), agg |-> staged]

\* [err, agg]
AccessCondition_update_expression(agg, new_expression) ==
    IF validate_expression(new_expression).kind # "Ok"
        THEN [err |-> validate_expression(new_expression), agg |-> agg]
    ELSE IF agg.expression = new_expression
            \/ agg.updated_expression = {new_expression}
        THEN [err |-> OkRes, agg |-> agg]
    ELSE [err |-> OkRes,
          agg |-> [agg EXCEPT !.updated_expression = {new_expression}]]

\* AccessCondition::delete that flips the mark
delete_toggling(agg) == [agg EXCEPT !.deleted = ~agg.deleted]

AccessCondition_delete(agg) == [agg EXCEPT !.deleted = TRUE]

\* the statements as the database executes them: [err, rows]
exec_insert(rows, row, fault) ==
    IF fault = "write" THEN [err |-> DbErr, rows |-> rows]
    ELSE IF NameTaken(rows, row.id, row.name)
        THEN [err |-> UniqueViolation, rows |-> rows]
    ELSE [err |-> OkRes, rows |-> rows \cup {row}]

exec_delete_by_id(rows, id, fault) ==
    IF fault = "write" THEN [err |-> DbErr, rows |-> rows]
    ELSE [err |-> OkRes, rows |-> {r \in rows : r.id # id}]

\* UPDATE policy SET <the columns that are Set> WHERE id = ..
exec_update(rows, id, name_setter, expression_setter, fault) ==
    LET Set(r) ==
            [id |-> r.id,
             name |-> IF name_setter = {} THEN r.name
                      ELSE CHOOSE n \in name_setter : TRUE,
             expression |-> IF expression_setter = {} THEN r.expression
                            ELSE CHOOSE e \in expression_setter : TRUE]
    IN IF fault = "write" THEN [err |-> DbErr, rows |-> rows]
       ELSE IF \E r \in rows : r.id = id /\ NameTaken(rows, id, Set(r).name)
                                /\ name_setter # {}
           THEN [err |-> UniqueViolation, rows |-> rows]
       ELSE [err |-> OkRes,
             rows |-> {IF r.id = id THEN Set(r) ELSE r : r \in rows}]

\* a persist that checks a staged name before it looks at the tombstone
persist_checking_name_first(agg, rows, fault) ==
    LET c == IF agg.updated_name = {} THEN [err |-> OkRes, stmts |-> <<>>]
             ELSE ensure_policy_name_not_duplicated(
                      rows, CHOOSE n \in agg.updated_name : TRUE, fault)
    IN IF c.err.kind # "Ok" THEN [err |-> c.err, rows |-> rows, stmts |-> c.stmts]
       ELSE IF agg.deleted
       THEN LET w == exec_delete_by_id(rows, agg.id, fault)
            IN [err |-> IF w.err.kind = "Ok" THEN OkRes
                        ELSE PolicyErrorFromDbErr(w.err),
                rows |-> w.rows,
                stmts |-> Append(c.stmts, [stmt |-> "DELETE", id |-> agg.id])]
       ELSE LET w == exec_update(rows, agg.id, agg.updated_name,
                                 agg.updated_expression, fault)
            IN [err |-> IF w.err.kind = "Ok" THEN OkRes
                        ELSE PolicyErrorFromDbErr(w.err),
                rows |-> w.rows,
                stmts |-> Append(c.stmts,
                            [stmt |-> "UPDATE", id |-> agg.id,
                             name |-> agg.updated_name,
                             expression |-> agg.updated_expression])]

\* a persist that writes a staged name without counting the rows that carry it
persist_without_name_check(agg, rows, fault) ==
    IF agg.deleted
    THEN LET w == exec_delete_by_id(rows, agg.id, fault)
         IN [err |-> IF w.err.kind = "Ok" THEN OkRes
                     ELSE PolicyErrorFromDbErr(w.err),
             rows |-> w.rows,
             stmts |-> <<[stmt |-> "DELETE", id |-> agg.id]>>]
    ELSE LET w == exec_update(rows, agg.id, agg.updated_name,
                              agg.updated_expression, fault)
         IN [err |-> IF w.err.kind = "Ok" THEN OkRes
                     ELSE PolicyErrorFromDbErr(w.err),
             rows |-> w.rows,
             stmts |-> <<[stmt |-> "UPDATE", id |-> agg.id,
                          name |-> agg.updated_name,
                          expression |-> agg.updated_expression]>>]

\* a persist that still writes the staged expression when the name is taken
persist_expression_despite_name(agg, rows, fault) ==
    IF agg.deleted
    THEN LET w == exec_delete_by_id(rows, agg.id, fault)
         IN [err |-> IF w.err.kind = "Ok" THEN OkRes
                     ELSE PolicyErrorFromDbErr(w.err),
             rows |-> w.rows,
             stmts |-> <<[stmt |-> "DELETE", id |-> agg.id]>>]
    ELSE LET c == IF agg.updated_name = {} THEN [err |-> OkRes, stmts |-> <<>>]
                  ELSE ensure_policy_name_not_duplicated(
                           rows, CHOOSE n \in agg.updated_name : TRUE, fault)
             name_setter == IF c.err.kind = "Ok" THEN agg.updated_name ELSE {}
             w == exec_update(rows, agg.id, name_setter,
                              agg.updated_expression, fault)
         IN [err |-> IF c.err.kind # "Ok" THEN c.err
                     ELSE IF w.err.kind = "Ok" THEN OkRes
                     ELSE PolicyErrorFromDbErr(w.err),
             rows |-> w.rows,
             stmts |-> Append(c.stmts,
                         [stmt |-> "UPDATE", id |-> agg.id,
                          name |-> name_setter,
                          expression |-> agg.updated_expression])]

\* a persist that sets the name column whether a name is staged or not
persist_writing_every_column(agg, rows, fault) ==
    IF agg.deleted
    THEN LET w == exec_delete_by_id(rows, agg.id, fault)
         IN [err |-> IF w.err.kind = "Ok" THEN OkRes
                     ELSE PolicyErrorFromDbErr(w.err),
             rows |-> w.rows,
             stmts |-> <<[stmt |-> "DELETE", id |-> agg.id]>>]
    ELSE LET c == IF agg.updated_name = {} THEN [err |-> OkRes, stmts |-> <<>>]
                  ELSE ensure_policy_name_not_duplicated(
                           rows, CHOOSE n \in agg.updated_name : TRUE, fault)
             name_setter == IF agg.updated_name = {} THEN {agg.name}
                            ELSE agg.updated_name
         IN IF c.err.kind # "Ok"
            THEN [err |-> c.err, rows |-> rows, stmts |-> c.stmts]
            ELSE LET w == exec_update(rows, agg.id, name_setter,
                                      agg.updated_expression, fault)
                 IN [err |-> IF w.err.kind = "Ok" THEN OkRes
                             ELSE PolicyErrorFromDbErr(w.err),
                     rows |-> w.rows,
                     stmts |-> Append(c.stmts,
                                 [stmt |-> "UPDATE", id |-> agg.id,
                                  name |-> name_setter,
                                  expression |-> agg.updated_expression])]

\* impl Persistable for AccessCondition: [err, rows, stmts]
AccessCondition_persist(agg, rows, fault) ==
    IF agg.deleted
    THEN LET w == exec_delete_by_id(rows, agg.id, fault)
         IN [err |-> IF w.err.kind = "Ok" THEN OkRes
                     ELSE PolicyErrorFromDbErr(w.err),
             rows |-> w.rows,
             stmts |-> <<[stmt |-> "DELETE", id |-> agg.id]>>]
    ELSE LET c == IF agg.updated_name = {} THEN [err |-> OkRes, stmts |-> <<>>]
                  ELSE ensure_policy_name_not_duplicated(
                           rows, CHOOSE n \in agg.updated_name : TRUE, fault)
         IN IF c.err.kind # "Ok"
            THEN [err |-> c.err, rows |-> rows, stmts |-> c.stmts]
            ELSE LET w == exec_update(rows, agg.id, agg.updated_name,
                                      agg.updated_expression, fault)
                 IN [err |-> IF w.err.kind = "Ok" THEN OkRes
                             ELSE PolicyErrorFromDbErr(w.err),
                     rows |-> w.rows,
                     stmts |-> Append(c.stmts,
                                 [stmt |-> "UPDATE", id |-> agg.id,
                                  name |-> agg.updated_name,
                                  expression |-> agg.updated_expression])]

\* the statements that reach the database: the ORM executes an update in
\* which no column is Set as a no-op, without a statement
Sent(stmts) ==
    LET Reaches(s) ==
            ~(s.stmt = "UPDATE" /\ s.name = {} /\ s.expression = {})
    IN SelectSeq(stmts, Reaches)

\* impl Persistable for Workspace: [err, stmts]
Workspace_persist(workspace, fault) ==
    IF workspace.deleted
    THEN [err |-> IF fault = "write" THEN PolicyErrorFromDbErr(DbErr) ELSE OkRes,
          stmts |-> <<[stmt |-> "DELETE", id |-> workspace.id]>>]
    ELSE [err |-> OkRes, stmts |-> <<>>]

\* PolicyService::get: the row of that id, if any
PolicyService_get(rows, id) == {AccessCondition_from(r) : r \in {x \in rows : x.id = id}}

\* a register that counts the rows of that name before it validates
register_counting_first(rows, id, name, expression, fault) ==
    LET c == ensure_policy_name_not_duplicated(rows, name, fault)
        v == validate_expression(expression)
    IN IF c.err.kind # "Ok" THEN [err |-> c.err, rows |-> rows, stmts |-> c.stmts]
       ELSE IF v.kind # "Ok" THEN [err |-> v, rows |-> rows, stmts |-> c.stmts]
       ELSE LET row == [id |-> id, name |-> name, expression |-> expression]
                w == exec_insert(rows, row, fault)
            IN [err |-> IF w.err.kind = "Ok" THEN OkRes
                        ELSE PolicyErrorFromDbErr(w.err),
                rows |-> w.rows,
                stmts |-> Append(c.stmts, [stmt |-> "INSERT", row |-> row])]

\* PolicyService::register: [err, rows, stmts]; id is the fresh Ulid
PolicyService_register(rows, id, name, expression, fault) ==
    LET v == validate_expression(expression)
    IN IF v.kind # "Ok" THEN [err |-> v, rows |-> rows, stmts |-> <<>>]
       ELSE LET c == ensure_policy_name_not_duplicated(rows, name, fault)
            IN IF c.err.kind # "Ok"
               THEN [err |-> c.err, rows |-> rows, stmts |-> c.stmts]
               ELSE LET row == [id |-> id, name |-> name, expression |-> expression]
                        w == exec_insert(rows, row, fault)
                    IN [err |-> IF w.err.kind = "Ok" THEN OkRes
                                ELSE PolicyErrorFromDbErr(w.err),
                        rows |-> w.rows,
                        stmts |-> Append(c.stmts, [stmt |-> "INSERT", row |-> row])]

\* the policy table is empty, no aggregate is loaded, nothing was called
PolicyIdle ==
    [rows |-> {}, agg |-> {},
     last |-> [op |-> "none", kind |-> "Ok", stmts |-> <<>>],
     txs |-> <<>>]

\* ------------------------------- domain::policy, one statement after another
\* an insert whose error is dropped
register_insert_unchecked(rows, id, name, expression) ==
    [err |-> OkRes,
     rows |-> exec_insert(rows, [id |-> id, name |-> name,
                                 expression |-> expression], "none").rows]

\* register after its count: active_model.insert(transaction).await?
register_insert(rows, id, name, expression) ==
    LET w == exec_insert(rows, [id |-> id, name |-> name,
                                expression |-> expression], "none")
    IN [err |-> IF w.err.kind = "Ok" THEN OkRes ELSE PolicyErrorFromDbErr(w.err),
        rows |-> w.rows]

\* persist after its count: update_many().set(..).filter(id).exec(..).await?
persist_update(agg, rows) ==
    LET w == exec_update(rows, agg.id, agg.updated_name,
                         agg.updated_expression, "none")
    IN [err |-> IF w.err.kind = "Ok" THEN OkRes ELSE PolicyErrorFromDbErr(w.err),
        rows |-> w.rows]

\* two transactions at a time, each on a policy of its own, after one name
RaceTxs == {"t1", "t2"}
RaceName == "test3"
RaceKinds == {"register", "rename"}
PolicyOf(t) ==
    IF t = "t1" THEN [id |-> 1, name |-> "test1", expression |-> FrontendExpr]
    ELSE [id |-> 2, name |-> "test2", expression |-> BackendExpr]

\* ---------------------------------------------- tessera_abe::curves::bn462
\* The curve in small: the order q of the groups, the modulus p of the field
\* the pairing lands in (q divides p - 1), bytes of four bits, a BIG of NLEN
\* chunks of two bits.
MODULUS == 5
FP_MODULUS == 11
MODBYTES == 1
NLEN == 2
MSG_SIZE == 4 * MODBYTES
Bytes == 0..15
Chunks == 0..3
BigValues == 0..15
\* u64 and i64 (isize has the width of i64), in two bits: an integer is far
\* narrower than the order
U64 == 0..3
I64 == (0 - 2)..1
\* MSG_SIZE bytes of the random number generator
RandomBytes == {<<x>> \o t : x \in Bytes, t \in [1..(MSG_SIZE - 1) -> {0, 15}]}

\* tessera_miracl big::BIG, as the library is specified: new_ints and random
\* take no modulus, the mod* functions reduce
RECURSIVE BIG_powmod(_, _, _)
BIG_powmod(a, e, m) == IF e = 0 THEN 1 % m ELSE ((a % m) * BIG_powmod(a, e - 1, m)) % m
BIG_new_ints(x) == x[1] + 4 * x[2]
\* one chunk, taken as it is: a negative isize is a negative BIG
BIG_new_int(x) == x
\* 0 when the two are the same number, chunk by chunk
BIG_comp(a, b) == IF a = b THEN 0 ELSE IF a > b THEN 1 ELSE 0 - 1
BIG_random(rng) == rng[1]
BIG_modadd(a, b, m) == ((a % m) + (b % m)) % m
BIG_modneg(a, m) == (m - (a % m)) % m
BIG_modmul(a, b, m) == ((a % m) * (b % m)) % m
BIG_invmodp(a, m) == BIG_powmod(a, m - 2, m)

\* Bn462Field: [inner |-> BIG]
Bn462Field_new == [inner |-> 0]
Bn462Field_one == [inner |-> 1]
\* `as isize`: the bits as they are, read in two's complement
as_isize(x) == IF x \in I64 THEN x ELSE x - Cardinality(U64)
Bn462Field_new_int(x) == [inner |-> BIG_new_int(as_isize(x))]
Bn462Field_new_ints(x) == [inner |-> BIG_new_ints(x)]
Bn462Field_from(x) == [inner |-> BIG_new_int(as_isize(x))]
Bn462Field_random(rng) == [inner |-> BIG_random(rng)]
Bn462Field_random_within_order(rng) == [inner |-> BIG_random(rng) % MODULUS]
Bn462Field_ref_add(self, other) ==
    [inner |-> BIG_modadd(self.inner, other.inner, MODULUS)]
Bn462Field_div(self, other) ==
    [inner |-> BIG_modmul(self.inner, BIG_invmodp(other.inner, MODULUS), MODULUS)]
Bn462Field_ref_div(self, other) ==
    [inner |-> BIG_modmul(self.inner, BIG_invmodp(other.inner, MODULUS), MODULUS)]

Bn462Field_ref_mul(self, other) ==
    [inner |-> BIG_modmul(self.inner, other.inner, MODULUS)]
Bn462Field_ref_sub(self, other) ==
    [inner |-> BIG_modadd(self.inner, BIG_modneg(other.inner, MODULUS), MODULUS)]
Bn462Field_ref_neg(self) == [inner |-> BIG_modneg(self.inner, MODULUS)]
Bn462Field_eq(self, other) == BIG_comp(self.inner, other.inner) = 0
Bn462Field_pow(self, e) == [inner |-> BIG_powmod(self.inner, e.inner, MODULUS)]

\* tessera_miracl ecp::ECP, ecp2::ECP2, fp12::FP12 and pair, as the library
\* is specified. A point is its discrete logarithm to the generator; an FP12
\* is an element of the field of p elements, 4 of order q in it; ate leaves a
\* factor of order 2 that the final exponentiation removes.
ECP_generator == 1
pair_g1mul(P, e) == (P * (e % MODULUS)) % MODULUS
pair_g2mul(P, e) == (P * (e % MODULUS)) % MODULUS
pair_gtpow(x, e) == BIG_powmod(x, e % MODULUS, FP_MODULUS)
pair_ate(Q, P) ==
    (BIG_powmod(2, P * Q, FP_MODULUS)
        * (IF (P + Q) % 2 = 0 THEN 1 ELSE FP_MODULUS - 1)) % FP_MODULUS
pair_fexp(x) == BIG_powmod(x, (FP_MODULUS - 1) \div MODULUS, FP_MODULUS)
FP12_tobytes(x) == <<x>>
FP12_frombytes(bytes) == bytes[1] % FP_MODULUS
FP12_inverse(x) == BIG_powmod(x, FP_MODULUS - 2, FP_MODULUS)

\* G1, G2, Gt: [inner |-> ..]
G1_generator == [inner |-> ECP_generator]
G2_generator == [inner |-> ECP_generator]
G1_ref_mul(self, rhs) == [inner |-> pair_g1mul(self.inner, rhs.inner)]
G2_ref_mul(self, rhs) == [inner |-> pair_g2mul(self.inner, rhs.inner)]
Gt_one == [inner |-> 1]

\* the bytes of the element after the padding
to_bytes_padding_first(gt) ==
    [i \in 1..(MSG_SIZE - MODBYTES) |-> 0] \o FP12_tobytes(gt.inner)

\* impl From<Gt> for Vec<u8>: vec![0u8; MSG_SIZE], then tobytes into it
Gt_to_bytes(gt) ==
    FP12_tobytes(gt.inner) \o [i \in 1..(MSG_SIZE - MODBYTES) |-> 0]
\* impl From<&[u8]> for Gt
Gt_from_bytes(bytes) == [inner |-> FP12_frombytes(bytes)]
Gt_random(rand_bytes) == [inner |-> FP12_frombytes(rand_bytes)]
Gt_mul(self, rhs) == [inner |-> (self.inner * rhs.inner) % FP_MODULUS]
Gt_ref_pow(self, rhs) == [inner |-> pair_gtpow(self.inner, rhs.inner)]
Gt_inverse(self) == [inner |-> FP12_inverse(self.inner)]

\* a pairing without the final exponentiation
pair_without_fexp(e1, e2) == [inner |-> pair_ate(e2.inner, e1.inner)]

\* Bn462Curve::pair
Bn462Curve_pair(e1, e2) == [inner |-> pair_fexp(pair_ate(e2.inner, e1.inner))]

\* two field elements and an element of Gt, and the operation that made them
FieldIdle ==
    [a |-> Bn462Field_new, b |-> Bn462Field_one, gt |-> Gt_one, op |-> "none"]

\* ------------------------------------------------ application (the facade)
Workspaces == {"w1", "w2"}
UseCaseKinds == {"secret", "parameter", "policy", "path", "authority"}
Requests == {"r1", "r2"}          \* two requests served at the same time
TxIds == 1..MaxTx

\* Application::with_workspace
with_workspace(workspace_name) == [workspace_name |-> workspace_name]

ApplicationWithWorkspace_secret(self) ==
    [kind |-> "secret", workspace_name |-> self.workspace_name]
ApplicationWithWorkspace_parameter(self) ==
    [kind |-> "parameter", workspace_name |-> self.workspace_name]
ApplicationWithWorkspace_policy(self) ==
    [kind |-> "policy", workspace_name |-> self.workspace_name]

\* a facade that hands every path use-case the first workspace
path_of_first_workspace(self) == [kind |-> "path", workspace_name |-> "w1"]

ApplicationWithWorkspace_path(self) ==
    [kind |-> "path", workspace_name |-> self.workspace_name]
ApplicationWithWorkspace_authority(self) ==
    [kind |-> "authority", workspace_name |-> self.workspace_name]

\* the use-case of a kind, taken from the facade
UseCaseOf(self, kind) ==
    CASE kind = "secret" -> ApplicationWithWorkspace_secret(self)
      [] kind = "parameter" -> ApplicationWithWorkspace_parameter(self)
      [] kind = "policy" -> ApplicationWithWorkspace_policy(self)
      [] kind = "path" -> ApplicationWithWorkspace_path(self)
      [] kind = "authority" -> ApplicationWithWorkspace_authority(self)

\* the schema of a workspace, and a transaction whose search path is set to it
WorkspaceSchema(workspace_name) == <<"workspace_", workspace_name>>
ClosedTx == [open |-> FALSE, schema |-> <<>>, adds |-> {}, dels |-> {}]
begin_with_workspace_scope(workspace_name) ==
    [open |-> TRUE, schema |-> WorkspaceSchema(workspace_name),
     adds |-> {}, dels |-> {}]

\* ------------------------------- application::path, one call after another
\* a call of an operation's body: what is called, on what, and the local
\* variable that holds the transaction it is given (for begin: is bound to)
Stmt(call, on, tx) == [call |-> call, on |-> on, tx |-> tx]
BeginStmt == Stmt("begin_with_workspace_scope", "database_connection", "transaction")
CommitStmt == Stmt("commit", "transaction", "transaction")

PathUseCase_get_all ==
    <<BeginStmt, Stmt("get_paths", "secret_service", "transaction"), CommitStmt>>

PathUseCase_register ==
    <<BeginStmt, Stmt("register_path", "secret_service", "transaction"), CommitStmt>>

\* a delete that persists and commits in a transaction of its own
delete_persisting_apart ==
    <<BeginStmt,
      Stmt("get_path", "secret_service", "transaction"),
      Stmt("delete", "path", "transaction"),
      Stmt("begin_with_workspace_scope", "database_connection", "transaction2"),
      Stmt("persist", "path", "transaction2"),
      Stmt("commit", "transaction2", "transaction2")>>

PathUseCase_delete ==
    <<BeginStmt,
      Stmt("get_path", "secret_service", "transaction"),
      Stmt("delete", "path", "transaction"),
      Stmt("persist", "path", "transaction"),
      CommitStmt>>

\* new_path, new_policies: is the Option a Some
PathUseCase_update(new_path, new_policies) ==
    <<BeginStmt, Stmt("get_path", "secret_service", "transaction")>>
    \o (IF new_path THEN <<Stmt("update_path", "path", "transaction")>> ELSE <<>>)
    \o (IF new_policies
        THEN <<Stmt("update_policies", "path", "transaction")>> ELSE <<>>)
    \o <<Stmt("persist", "path", "transaction"), CommitStmt>>

PathUseCase_get ==
    <<BeginStmt, Stmt("get_path", "secret_service", "transaction"), CommitStmt>>

\* an operation of the secret, parameter, policy and authority use-cases:
\* one scoped transaction around the calls of its service
UseCase_operation ==
    <<BeginStmt, Stmt("call", "service", "transaction"), CommitStmt>>

\* the operations of a use-case, by name
PathOps == {"get_all", "register", "delete", "update_path", "update_policies",
            "update_both", "update_none", "get"}
OpsOf(kind) == IF kind = "path" THEN PathOps ELSE {"operation"}
BodyOf(op) ==
    CASE op = "get_all" -> PathUseCase_get_all
      [] op = "register" -> PathUseCase_register
      [] op = "delete" -> PathUseCase_delete
      [] op = "update_path" -> PathUseCase_update(TRUE, FALSE)
      [] op = "update_policies" -> PathUseCase_update(FALSE, TRUE)
      [] op = "update_both" -> PathUseCase_update(TRUE, TRUE)
      [] op = "update_none" -> PathUseCase_update(FALSE, FALSE)
      [] op = "get" -> PathUseCase_get
      [] op = "operation" -> UseCase_operation

\* a request that runs nothing
IdleRequest ==
    [name |-> "", uc |-> {}, op |-> "none", body |-> <<>>, pc |-> 1,
     locals |-> {}, log |-> <<>>, status |-> "idle"]

\* the schemas of the workspaces (no row), no transaction, no request
WsIdle ==
    [schemas |-> [w \in Workspaces |-> {}],
     txs |-> [h \in TxIds |-> ClosedTx],
     reqs |-> [q \in Requests |-> IdleRequest]]

\* ------------------------------------------------- start-up of the servers
JWK_SET_DEFAULT_KEY_ID == "default"
\* JwkSet as the key ids of its keys; JwkSet::default() generates one key
JwkSet_default == {JWK_SET_DEFAULT_KEY_ID}

\* WorkspaceConfig: Static { name } | Dynamic (Claim in nebula-authorization)
WorkspaceConfigs ==
    {[kind |-> "Static", name |-> w] : w \in Workspaces}
        \cup {[kind |-> "Dynamic", name |-> ""]}
\* Option<u64>: jwks_refresh_interval
RefreshIntervals == {{}, {30}}
\* Option<JwkSet> and Option<String>: token.jwks and token.jwk_kid
JwksConfigs == {{}, {{}}, {{"k1"}}, {{"k1", JWK_SET_DEFAULT_KEY_ID}}}
KidConfigs == {{}, {"k1"}, {"k2"}}
ServiceCalls ==
    {"WorkspaceService::new", "SecretService::new", "ParameterService::new",
     "PolicyService::new", "AuthorityService::new", "SAMLConnector::new",
     "TokenService::new"}
MigrationCalls == {"migrate", "migrate_workspace", "migrate_all_workspaces"}

\* calls that go on after the one that failed
Upto_the_end(calls, fault) == calls

\* the calls `?` lets through: all of them, or those up to the failing one
RECURSIVE Upto(_, _)
Upto(calls, fault) ==
    IF calls = <<>> THEN <<>>
    ELSE IF Head(calls) = fault THEN <<fault>>
    ELSE <<Head(calls)>> \o Upto(Tail(calls), fault)
Called(log, call) == \E i \in 1..Len(log) : log[i] = call

\* what a start-up ends in: Ok or Err, the calls it made in their order, the
\* JWKS fetches awaited, and the signing material (nebula-authorization)
Booted(calls, fault, fetches, jwks, kid) ==
    [result |-> IF Called(calls, fault) THEN "Err" ELSE "Ok",
     log |-> Upto(calls, fault), fetches |-> fetches, jwks |-> jwks, kid |-> kid]
NoDatabase == [workspaces |-> {}, parameters |-> {}]

\* nebula-authority: main. fetch_jwks and the awaited
\* CachedRemoteJwksDiscovery::new make one request to the JWKS endpoint and
\* return an error when it does not answer.
main(refresh, jwks_up, fault) ==
    LET discovery ==
            IF refresh # {}
            THEN IF jwks_up THEN <<"fetch_jwks", "CachedRemoteJwksDiscovery::new">>
                 ELSE <<"fetch_jwks: Err">>
            ELSE IF jwks_up THEN <<"fetch_jwks", "StaticJwksDiscovery::new">>
                 ELSE <<"fetch_jwks: Err">>
        calls == <<"load_config", "Authority::new">> \o discovery
                    \o <<"Application::new", "server::run">>
        failing == IF ~jwks_up /\ fault \notin {"load_config", "Authority::new"}
                   THEN "fetch_jwks: Err" ELSE fault
        made == Upto(calls, failing)
    IN Booted(calls, failing,
              Cardinality({i \in 1..Len(made) :
                              made[i] \in {"fetch_jwks", "fetch_jwks: Err"}}),
              {}, "")

\* WorkspaceService::create and ParameterService::create on the control
\* schema: the name of a workspace is unique, a workspace has one parameter
workspace_service_create(dbs, name) ==
    IF name \in dbs.workspaces
    THEN [err |-> "WorkspaceNameConflicted", db |-> dbs]
    ELSE [err |-> "none", db |-> [dbs EXCEPT !.workspaces = @ \cup {name}]]
parameter_service_create(dbs, name) ==
    IF name \in dbs.parameters
    THEN [err |-> "ParameterAlreadyCreated", db |-> dbs]
    ELSE [err |-> "none", db |-> [dbs EXCEPT !.parameters = @ \cup {name}]]

\* a start-up that does not stand a workspace that is already there
static_workspace_strict(name, fault, dbs) ==
    LET w == workspace_service_create(dbs, name)
        q == parameter_service_create(w.db, name)
    IN  IF fault = "begin_with_workspace_scope"
        THEN [calls |-> <<fault>>, failing |-> fault, db |-> dbs]
        ELSE IF fault = "workspace_service.create" \/ w.err # "none"
        THEN [calls |-> <<"begin_with_workspace_scope",
                          "workspace_service.create: Err", "rollback">>,
              failing |-> "rollback", db |-> dbs]
        ELSE IF fault = "parameter_service.create"
        THEN [calls |-> <<"begin_with_workspace_scope",
                          "workspace_service.create",
                          "parameter_service.create: Err", "rollback">>,
              failing |-> "rollback", db |-> dbs]
        ELSE [calls |-> <<"begin_with_workspace_scope",
                          "workspace_service.create",
                          "parameter_service.create", "commit">>,
              failing |-> fault,
              db |-> IF fault = "commit" THEN dbs ELSE q.db]

\* a start-up that rolls back on a workspace error and goes on all the same
static_workspace_without_bail(name, fault, dbs) ==
    LET w == workspace_service_create(dbs, name)
        q == parameter_service_create(w.db, name)
        created == IF w.err = "none" THEN "workspace_service.create"
                   ELSE "workspace_service.create: WorkspaceNameConflicted"
        set == IF q.err = "none" THEN "parameter_service.create"
               ELSE "parameter_service.create: ParameterAlreadyCreated"
    IN  IF fault = "begin_with_workspace_scope"
        THEN [calls |-> <<fault>>, failing |-> fault, db |-> dbs]
        ELSE IF fault = "workspace_service.create"
        THEN [calls |-> <<"begin_with_workspace_scope",
                          "workspace_service.create: Err", "rollback",
                          "parameter_service.create", "commit">>,
              failing |-> "none", db |-> dbs]
        ELSE IF fault = "parameter_service.create"
        THEN [calls |-> <<"begin_with_workspace_scope", created,
                          "parameter_service.create: Err", "rollback">>,
              failing |-> "rollback", db |-> dbs]
        ELSE [calls |-> <<"begin_with_workspace_scope", created, set, "commit">>,
              failing |-> fault,
              db |-> IF fault = "commit" THEN dbs ELSE q.db]

\* nebula-backbone-domain: init, WorkspaceConfig::Static. The calls, the one
\* that ends the start-up in an error (bail! after the rollback), and the
\* control schema as the transaction leaves it.
static_workspace(name, fault, dbs) ==
    LET w == workspace_service_create(dbs, name)
        q == parameter_service_create(w.db, name)
        created == IF w.err = "none" THEN "workspace_service.create"
                   ELSE "workspace_service.create: WorkspaceNameConflicted"
        set == IF q.err = "none" THEN "parameter_service.create"
               ELSE "parameter_service.create: ParameterAlreadyCreated"
    IN  IF fault = "begin_with_workspace_scope"
        THEN [calls |-> <<fault>>, failing |-> fault, db |-> dbs]
        ELSE IF fault = "workspace_service.create"
        THEN [calls |-> <<"begin_with_workspace_scope",
                          "workspace_service.create: Err", "rollback">>,
              failing |-> "rollback", db |-> dbs]
        ELSE IF fault = "parameter_service.create"
        THEN [calls |-> <<"begin_with_workspace_scope", created,
                          "parameter_service.create: Err", "rollback">>,
              failing |-> "rollback", db |-> dbs]
        ELSE [calls |-> <<"begin_with_workspace_scope", created, set, "commit">>,
              failing |-> fault,
              db |-> IF fault = "commit" THEN dbs ELSE q.db]

\* nebula-backbone-domain: init
init(workspace, refresh, fault, dbs) ==
    LET before == <<"init_database_connection", "CachedRemoteJwksDiscovery::new",
                    "WorkspaceService::new", "SecretService::new",
                    "ParameterService::new", "PolicyService::new",
                    "AuthorityService::new", "migrate">>
        st == static_workspace(workspace.name, fault, dbs)
        early == Called(before, fault)
        calls == before
                    \o (IF workspace.kind = "Static" THEN st.calls
                        ELSE <<"begin", "migrate_all_workspaces">>)
                    \o <<"Application">>
        failing == IF ~early /\ workspace.kind = "Static" THEN st.failing
                   ELSE fault
        o == Booted(calls, failing, 0, {}, "")
    IN [result |-> o.result, log |-> o.log, fetches |-> 0, jwks |-> {},
        kid |-> "",
        db |-> IF ~early /\ workspace.kind = "Static" THEN st.db ELSE dbs]

\* nebula-authorization: init, the match on (token.jwks, token.jwk_kid)
signing_material(jwks, kid) ==
    IF jwks # {} /\ kid # {}
    THEN [jwks |-> CHOOSE j \in jwks : TRUE, kid |-> CHOOSE k \in kid : TRUE]
    ELSE IF jwks # {}
    THEN [jwks |-> CHOOSE j \in jwks : TRUE, kid |-> JWK_SET_DEFAULT_KEY_ID]
    ELSE [jwks |-> JwkSet_default, kid |-> JWK_SET_DEFAULT_KEY_ID]

\* nebula-authorization: Application::init
Application_init(workspace, jwks, kid, fault) ==
    LET calls == <<"init_database_connection">>
                    \o (IF workspace.kind = "Static" THEN <<"migrate_workspace">>
                        ELSE <<"begin", "migrate_all_workspaces">>)
                    \o <<"SAMLConnector::new", "TokenService::new", "Application">>
        m == signing_material(jwks, kid)
        o == Booted(calls, fault, 0, {}, "")
    IN IF o.result = "Ok" THEN [o EXCEPT !.jwks = m.jwks, !.kid = m.kid] ELSE o

\* no server was started; the control schema of the backbone is empty
BootIdle ==
    [server |-> "none", workspace |-> [kind |-> "Dynamic", name |-> ""],
     refresh |-> {}, jwks_up |-> TRUE, jwks |-> {}, kid |-> {},
     fault |-> "none", out |-> Booted(<<>>, "none", 0, {}, ""),
     db |-> NoDatabase]

\* ------------------------------------------------------------ state machine
EmptyDb == [paths |-> EmptyBag, secrets |-> {}, vaults |-> {}]

\* two path requests of one workspace, each in a transaction of its own
PathTxs == {"T1", "T2"}
NoPathTx ==
    [op |-> [kind |-> "none", path |-> Root, to |-> Root], pc |-> "idle",
     agg |-> {}, adds |-> {}, dels |-> {}, locked |-> {}, err |-> ""]
\* the committed rows of the path table (the root and the two top-level
\* paths), and no transaction
PathTxIdle ==
    [rows |-> {[path |-> q, policies |-> {}] : q \in {Root, <<"a">>, <<"b">>}},
     txs |-> [t \in PathTxs |-> NoPathTx]]

\* the rows other transactions see once an operation has ended: those of a
\* committed transaction, else (the transaction is dropped) the rows as before
Visible(d, o) == IF o.committed THEN o.tx ELSE d

\* no request is being served
Ready == [op |-> "ready", kind |-> "Ok"]

Init ==
    /\ db = EmptyDb
    /\ last = Ready
    /\ ps = PolicyIdle
    /\ ws = WsIdle
    /\ bs = BootIdle
    /\ fs = FieldIdle
    /\ pt = PathTxIdle

\* an operation ran to its end; last keeps which one and the kind of its
\* result until the caller has the response
Ran(op, p, new_path, fault, o) ==
    /\ last = Ready
    /\ \A r \in BagToSet(o.tx.paths) : Len(r.path) <= MaxDepth
    /\ db' = Visible(db, o)
    /\ last' = [op |-> op, kind |-> o.result.kind]
    /\ UNCHANGED <<ps, ws, bs, fs, pt>>

GetAll ==
    \E fault \in ReadFaults : Ran("get_all", {}, {}, fault, get_all(db, fault))

Get ==
    \E p \in ValidPaths, fault \in ReadFaults :
        \E found \in one(get_path(db, p)) :
            Ran("get", {p}, {}, fault, get(db, found, p, fault))

Register ==
    /\ BagCardinality(db.paths) < MaxRows
    /\ \E p \in PathInputs, policies \in PolicyInputs, claim \in Claims,
          fault \in ReadFaults :
            Ran("register", {p}, {}, fault, register(db, p, policies, claim, fault))

Delete ==
    \E p \in ValidPaths, claim \in Claims, fault \in Faults :
        \E found \in one(get_path(db, p)) :
            Ran("delete", {p}, {}, fault, delete(db, found, p, claim, fault))

Update ==
    \E p \in ValidPaths, claim \in Claims, in \in UpdateInputs :
        \E found \in one(get_path(db, p)) :
            Ran("update", {p}, in.new_path, in.fault,
                update(db, found, p, in.new_path, in.new_policies, claim, in.fault))

RegisterSecret ==
    /\ Cardinality(db.secrets) < MaxSecrets
    /\ \E key \in Keys, p \in StoredPaths(db) :
        /\ [key |-> key, path |-> p] \notin db.secrets
        /\ Ran("register_secret", {p}, {}, "none",
               Outcome(OkRes, register_secret(db, key, p),
                       <<"begin", "register_secret", "commit">>, TRUE))

VaultCreate ==
    \E name \in VaultNames, fault \in ReadFaults :
        Ran("vault_create", {}, {}, fault, create(db, name, fault))

\* the caller has the response
Respond ==
    /\ last # Ready
    /\ last' = Ready
    /\ UNCHANGED <<db, ps, ws, bs, fs, pt>>

Next ==
    \/ GetAll
    \/ Get
    \/ Register
    \/ Delete
    \/ Update
    \/ RegisterSecret
    \/ VaultCreate
    \/ Respond

Spec == Init /\ [][Next]_vars

\* ------------------------------------------- state machine of the policies
\* one transaction at a time: a register, or a load followed by the
\* aggregate's methods and its persist; a failed transaction leaves the rows
InitPolicy ==
    /\ db = EmptyDb
    /\ last = Ready
    /\ ps = PolicyIdle
    /\ ws = WsIdle
    /\ bs = BootIdle
    /\ fs = FieldIdle
    /\ pt = PathTxIdle

\* an operation ended: the rows and the loaded aggregate it leaves, and what
\* it was, how it ended and the statements it issued
PolicyRan(rows, agg, op, kind, stmts) ==
    /\ ps' = [rows |-> rows, agg |-> agg,
              last |-> [op |-> op, kind |-> kind, stmts |-> stmts],
              txs |-> ps.txs]
    /\ UNCHANGED <<db, last, ws, bs, fs, pt>>

PolicyRegister ==
    /\ ps.agg = {}
    /\ \E id \in PolicyIds \ {r.id : r \in ps.rows}, name \in PolicyNames,
          expression \in ExpressionInputs, fault \in PolicyFaults :
            LET o == PolicyService_register(ps.rows, id, name, expression, fault)
            IN PolicyRan(IF o.err.kind = "Ok" THEN o.rows ELSE ps.rows, {},
                         "register", o.err.kind, o.stmts)

PolicyGet ==
    /\ ps.agg = {}
    /\ \E id \in PolicyIds :
        LET found == PolicyService_get(ps.rows, id)
        IN PolicyRan(ps.rows, found, "get",
                     IF found = {} THEN "None" ELSE "Ok",
                     <<[stmt |-> "SELECT", id |-> id]>>)

PolicyUpdateName ==
    \E agg \in ps.agg, new_name \in PolicyNames :
        PolicyRan(ps.rows, {AccessCondition_update_name(agg, new_name)},
                  "update_name", "Ok", <<>>)

PolicyUpdateExpression ==
    \E agg \in ps.agg, new_expression \in ExpressionInputs :
        LET o == AccessCondition_update_expression(agg, new_expression)
        IN PolicyRan(ps.rows, {o.agg}, "update_expression", o.err.kind, <<>>)

PolicyDelete ==
    \E agg \in ps.agg :
        PolicyRan(ps.rows, {AccessCondition_delete(agg)}, "delete", "Ok", <<>>)

PolicyPersist ==
    \E agg \in ps.agg, fault \in PolicyFaults :
        LET o == AccessCondition_persist(agg, ps.rows, fault)
        IN PolicyRan(IF o.err.kind = "Ok" THEN o.rows ELSE ps.rows, {},
                     "persist", o.err.kind, o.stmts)

\* a Workspace aggregate, deleted or not, is persisted
WorkspacePersist ==
    \E name \in Workspaces, deleted \in BOOLEAN, fault \in PolicyFaults :
        LET o == Workspace_persist([id |-> name, name |-> name,
                                    deleted |-> deleted], fault)
        IN PolicyRan(ps.rows, ps.agg, "workspace_persist", o.err.kind, o.stmts)

NextPolicy ==
    \/ WorkspacePersist
    \/ PolicyRegister
    \/ PolicyGet
    \/ PolicyUpdateName
    \/ PolicyUpdateExpression
    \/ PolicyDelete
    \/ PolicyPersist

SpecPolicy == InitPolicy /\ [][NextPolicy]_vars

\* ------------------------------------ state machine of concurrent requests
\* two requests at a time, each through a facade of with_workspace, each one
\* call of its operation's body per step
InitTx ==
    /\ db = EmptyDb
    /\ last = Ready
    /\ ps = PolicyIdle
    /\ ws = WsIdle
    /\ bs = BootIdle
    /\ fs = FieldIdle
    /\ pt = PathTxIdle

\* the transactions a local variable of the request holds
TxOf(req, var) == {b[2] : b \in {x \in req.locals : x[1] = var}}

\* what a transaction sees: the committed rows of its schema and its own writes
View(w, h) ==
    (w.schemas[w.txs[h].schema[2]] \ w.txs[h].dels) \cup w.txs[h].adds

\* the request returns: the transactions it still holds are dropped
Dropped(txs, req) ==
    [h \in TxIds |-> IF \E b \in req.locals : b[2] = h THEN ClosedTx ELSE txs[h]]

Logged(req, s, tx, schema) ==
    Append(req.log, [call |-> s.call, tx |-> tx, schema |-> schema])

\* the request returns an Err: nothing of it is left
Failed(req, log) == [IdleRequest EXCEPT !.status = "Err"]

\* the next call, or the Ok at the end of the body
After(req, log, locals) ==
    IF req.pc + 1 > Len(req.body)
    THEN [req EXCEPT !.pc = @ + 1, !.log = log, !.status = "Ok", !.locals = {}]
    ELSE [req EXCEPT !.pc = @ + 1, !.log = log, !.locals = locals]

\* the rows a service or aggregate call leaves in its transaction; a row
\* carries the workspace its request was made for
RowOf(name) == [of |-> name]
Written(w, h, req, s) ==
    LET t == w.txs[h]
        stored == View(w, h)
    IN CASE s.call \in {"register_path", "call"} ->
              [t EXCEPT !.adds = @ \cup {RowOf(req.name)},
                        !.dels = @ \ {RowOf(req.name)}]
         [] s.call = "persist" /\ req.op = "delete" ->
              [t EXCEPT !.adds = @ \ stored, !.dels = @ \cup stored]
         [] s.call = "persist" /\ req.op # "delete" ->
              [t EXCEPT !.adds = (@ \ stored) \cup {RowOf(req.name)},
                        !.dels = (@ \cup stored) \ {RowOf(req.name)}]
         [] OTHER -> t

\* a handler takes the facade of the request's workspace and one use-case
TxStart(q) ==
    /\ ws.reqs[q].status # "running"
    /\ \E name \in Workspaces, kind \in UseCaseKinds :
        \E op \in OpsOf(kind) :
            ws' = [ws EXCEPT !.reqs[q] =
                    [name |-> name,
                     uc |-> {UseCaseOf(with_workspace(name), kind)},
                     op |-> op, body |-> BodyOf(op), pc |-> 1, locals |-> {},
                     log |-> <<>>, status |-> "running"]]
    /\ UNCHANGED <<db, last, ps, bs, fs, pt>>

TxBegin(q) ==
    LET req == ws.reqs[q]
        s == req.body[req.pc]
    IN /\ req.status = "running"
       /\ s.call = "begin_with_workspace_scope"
       /\ \/ ws' = [ws EXCEPT !.reqs[q] = Failed(req, Logged(req, s, {}, <<>>)),
                              !.txs = Dropped(ws.txs, req)]
          \/ \E h \in TxIds, uc \in req.uc :
                /\ ~ws.txs[h].open
                /\ \A g \in TxIds : g < h => ws.txs[g].open
                /\ LET t == begin_with_workspace_scope(uc.workspace_name)
                       nxt == After(req, Logged(req, s, {h}, t.schema),
                                    {b \in req.locals : b[1] # s.tx}
                                        \cup {<<s.tx, h>>})
                   IN ws' = [ws EXCEPT
                        !.reqs[q] = nxt,
                        !.txs = IF nxt.status = "Ok"
                                THEN Dropped([ws.txs EXCEPT ![h] = t],
                                             [req EXCEPT !.locals = @ \cup {<<s.tx, h>>}])
                                ELSE [ws.txs EXCEPT ![h] = t]]
       /\ UNCHANGED <<db, last, ps, bs, fs, pt>>

TxCall(q) ==
    LET req == ws.reqs[q]
        s == req.body[req.pc]
    IN /\ req.status = "running"
       /\ s.call \notin {"begin_with_workspace_scope", "commit"}
       /\ \E h \in TxOf(req, s.tx) :
            LET log == Logged(req, s, {h}, ws.txs[h].schema)
                found == View(ws, h) # {}
            IN \/ ws' = [ws EXCEPT !.reqs[q] = Failed(req, log),
                                   !.txs = Dropped(ws.txs, req)]
               \/ /\ s.call = "get_path" => found
                  /\ LET nxt == After(req, log, req.locals)
                         txs == [ws.txs EXCEPT ![h] = Written(ws, h, req, s)]
                     IN ws' = [ws EXCEPT
                            !.reqs[q] = nxt,
                            !.txs = IF nxt.status = "Ok" THEN Dropped(txs, req)
                                    ELSE txs]
       /\ UNCHANGED <<db, last, ps, bs, fs, pt>>

TxCommit(q) ==
    LET req == ws.reqs[q]
        s == req.body[req.pc]
    IN /\ req.status = "running"
       /\ s.call = "commit"
       /\ \E h \in TxOf(req, s.tx) :
            LET log == Logged(req, s, {h}, ws.txs[h].schema)
                held == {b \in req.locals : b[2] # h}
            IN \/ ws' = [ws EXCEPT !.reqs[q] = Failed(req, log),
                                   !.txs = Dropped(ws.txs, req)]
               \/ LET nxt == After(req, log, held)
                      txs == [ws.txs EXCEPT ![h] = ClosedTx]
                  IN ws' = [ws EXCEPT
                        !.reqs[q] = nxt,
                        !.schemas[ws.txs[h].schema[2]] = View(ws, h),
                        !.txs = IF nxt.status = "Ok"
                                THEN Dropped(txs, [req EXCEPT !.locals = held])
                                ELSE txs]
       /\ UNCHANGED <<db, last, ps, bs, fs, pt>>

\* a cancellation that would commit what the request had written so far
TxCancel_committing(q) ==
    LET req == ws.reqs[q]
        held(w) == {b[2] : b \in {x \in req.locals : ws.txs[x[2]].schema[2] = w}}
    IN /\ req.status = "running"
       /\ ws' = [ws EXCEPT !.reqs[q] = [IdleRequest EXCEPT !.status = "Cancelled",
                                                           !.op = req.op,
                                                           !.pc = req.pc],
                           !.schemas = [w \in Workspaces |->
                                IF held(w) = {} THEN ws.schemas[w]
                                ELSE View(ws, CHOOSE h \in held(w) : TRUE)],
                           !.txs = Dropped(ws.txs, req)]
       /\ UNCHANGED <<db, last, ps, bs, fs, pt>>

\* the task of the request is cancelled where it is suspended, before a call
\* or in the middle of one: its future is dropped, and with it the
\* transactions it holds (what is kept of the request is where it stopped)
TxCancel(q) ==
    LET req == ws.reqs[q]
    IN /\ req.status = "running"
       /\ ws' = [ws EXCEPT !.reqs[q] = [IdleRequest EXCEPT !.status = "Cancelled",
                                                           !.op = req.op,
                                                           !.pc = req.pc],
                           !.txs = Dropped(ws.txs, req)]
       /\ UNCHANGED <<db, last, ps, bs, fs, pt>>

NextTx ==
    \/ \E q \in Requests : TxCancel(q)
    \/ \E q \in Requests : TxStart(q)
    \/ \E q \in Requests : TxBegin(q)
    \/ \E q \in Requests : TxCall(q)
    \/ \E q \in Requests : TxCommit(q)

SpecTx == InitTx /\ [][NextTx]_vars

\* ------------------------------ state machine of two racing transactions
\* each transaction registers its policy with RaceName, or loads its policy,
\* stages RaceName and persists; a statement sees the committed rows; a write
\* of a name waits while another transaction holds an uncommitted write
InitRace ==
    /\ db = EmptyDb
    /\ last = Ready
    /\ ws = WsIdle
    /\ bs = BootIdle
    /\ fs = FieldIdle
    /\ pt = PathTxIdle
    /\ \E kinds \in [RaceTxs -> RaceKinds] :
        ps = [PolicyIdle EXCEPT
                !.rows = {PolicyOf(t) : t \in {x \in RaceTxs : kinds[x] = "rename"}},
                !.txs = [t \in RaceTxs |->
                            [kind |-> kinds[t], pc |-> "begin", agg |-> {},
                             row |-> {}, result |-> OkRes, committed |-> FALSE]]]

RaceStep(t, tx) ==
    /\ ps' = [ps EXCEPT !.txs[t] = tx]
    /\ UNCHANGED <<db, last, ws, bs, fs, pt>>

\* the transaction ends without a commit: what it wrote is dropped
RolledBack(tx, err) ==
    [tx EXCEPT !.pc = "done", !.row = {}, !.result = err]

\* begin, and for a rename the load and update_name
RaceBegin(t) ==
    LET tx == ps.txs[t]
    IN /\ tx.pc = "begin"
       /\ IF tx.kind = "register"
          THEN RaceStep(t, [tx EXCEPT !.pc = "count"])
          ELSE \E agg \in PolicyService_get(ps.rows, PolicyOf(t).id) :
                RaceStep(t, [tx EXCEPT
                    !.pc = "count",
                    !.agg = {AccessCondition_update_name(agg, RaceName)}])

\* ensure_policy_name_not_duplicated over the committed rows
RaceCount(t) ==
    LET tx == ps.txs[t]
        c == ensure_policy_name_not_duplicated(ps.rows, RaceName, "none")
    IN /\ tx.pc = "count"
       /\ IF c.err.kind # "Ok" THEN RaceStep(t, RolledBack(tx, c.err))
          ELSE RaceStep(t, [tx EXCEPT !.pc = "write"])

\* the INSERT, or the UPDATE by id
RaceWrite(t) ==
    LET tx == ps.txs[t]
        w == IF tx.kind = "register"
             THEN register_insert(ps.rows, PolicyOf(t).id, RaceName,
                                  PolicyOf(t).expression)
             ELSE persist_update(CHOOSE agg \in tx.agg : TRUE, ps.rows)
    IN /\ tx.pc = "write"
       /\ \A o \in RaceTxs \ {t} : ps.txs[o].row = {}
       /\ IF w.err.kind # "Ok" THEN RaceStep(t, RolledBack(tx, w.err))
          ELSE RaceStep(t, [tx EXCEPT
                !.pc = "commit",
                !.row = {r \in w.rows : r.id = PolicyOf(t).id}])

RaceCommit(t) ==
    LET tx == ps.txs[t]
    IN /\ tx.pc = "commit"
       /\ ps' = [ps EXCEPT
                    !.rows = {r \in @ : \A x \in tx.row : x.id # r.id} \cup tx.row,
                    !.txs[t] = [tx EXCEPT !.pc = "done", !.row = {},
                                          !.committed = TRUE]]
       /\ UNCHANGED <<db, last, ws, bs, fs, pt>>

\* the connection is lost before the commit
RaceAbort(t) ==
    LET tx == ps.txs[t]
    IN /\ tx.pc \in {"count", "write", "commit"}
       /\ RaceStep(t, RolledBack(tx, DbErr))

NextRace ==
    \/ \E t \in RaceTxs : RaceBegin(t)
    \/ \E t \in RaceTxs : RaceCount(t)
    \/ \E t \in RaceTxs : RaceWrite(t)
    \/ \E t \in RaceTxs : RaceCommit(t)
    \/ \E t \in RaceTxs : RaceAbort(t)

SpecRace == InitRace /\ [][NextRace]_vars

\* ------------------------------------------- state machine of the start-up
InitBoot ==
    /\ db = EmptyDb
    /\ last = Ready
    /\ ps = PolicyIdle
    /\ ws = WsIdle
    /\ bs = BootIdle
    /\ fs = FieldIdle
    /\ pt = PathTxIdle

\* a server ran its start-up to the end; bs keeps its configuration, what
\* the environment did, the outcome and the control schema of the backbone
Started(server, workspace, refresh, jwks_up, jwks, kid, fault, o, dbs) ==
    /\ bs' = [server |-> server, workspace |-> workspace, refresh |-> refresh,
              jwks_up |-> jwks_up, jwks |-> jwks, kid |-> kid, fault |-> fault,
              out |-> [result |-> o.result, log |-> o.log,
                       fetches |-> o.fetches, jwks |-> o.jwks, kid |-> o.kid],
              db |-> dbs]
    /\ UNCHANGED <<db, last, ps, ws, fs, pt>>

StartAuthority ==
    \E refresh \in RefreshIntervals, jwks_up \in BOOLEAN,
       fault \in {"none", "load_config", "Authority::new", "server::run"} :
        Started("nebula-authority", BootIdle.workspace, refresh, jwks_up, {}, {},
                fault, main(refresh, jwks_up, fault), bs.db)

\* started again and again on the control schema the run before left
StartBackbone ==
    \E workspace \in WorkspaceConfigs, refresh \in RefreshIntervals,
       jwks_up \in BOOLEAN,
       fault \in {"none", "init_database_connection", "migrate",
                  "begin_with_workspace_scope", "workspace_service.create",
                  "parameter_service.create", "commit", "begin",
                  "migrate_all_workspaces"} :
        LET o == init(workspace, refresh, fault, bs.db)
        IN Started("nebula-backbone", workspace, refresh, jwks_up, {}, {},
                   fault, o, o.db)

StartAuthorization ==
    \E workspace \in WorkspaceConfigs, jwks \in JwksConfigs, kid \in KidConfigs,
       fault \in {"none", "init_database_connection", "migrate_workspace",
                  "begin", "migrate_all_workspaces", "SAMLConnector::new"} :
        Started("nebula-authorization", workspace, {}, TRUE, jwks, kid, fault,
                Application_init(workspace, jwks, kid, fault), bs.db)

NextBoot == StartAuthority \/ StartBackbone \/ StartAuthorization

SpecBoot == InitBoot /\ [][NextBoot]_vars

\* ----------------------------------------- state machine of the field layer
InitField ==
    /\ db = EmptyDb
    /\ last = Ready
    /\ ps = PolicyIdle
    /\ ws = WsIdle
    /\ bs = BootIdle
    /\ fs = FieldIdle
    /\ pt = PathTxIdle

\* an operation made a field element: it is a, the a before is b
Made(op, x) ==
    /\ fs' = [fs EXCEPT !.a = x, !.b = fs.a, !.op = op]
    /\ UNCHANGED <<db, last, ps, ws, bs, pt>>

\* an operation made an element of Gt
MadeGt(op, x) ==
    /\ fs' = [fs EXCEPT !.gt = x, !.op = op]
    /\ UNCHANGED <<db, last, ps, ws, bs, pt>>

FieldConstruct ==
    \/ Made("new", Bn462Field_new)
    \/ Made("one", Bn462Field_one)
    \/ \E x \in I64 : Made("new_int", Bn462Field_new_int(x))
    \/ \E x \in [1..NLEN -> Chunks] : Made("new_ints", Bn462Field_new_ints(x))
    \/ \E x \in U64 : Made("from", Bn462Field_from(x))

FieldRandom ==
    \E rng \in [1..1 -> BigValues] :
        \/ Made("random", Bn462Field_random(rng))
        \/ Made("random_within_order", Bn462Field_random_within_order(rng))

FieldArith ==
    \/ Made("add", Bn462Field_ref_add(fs.a, fs.b))
    \/ Made("sub", Bn462Field_ref_sub(fs.a, fs.b))
    \/ Made("neg", Bn462Field_ref_neg(fs.a))
    \/ Made("mul", Bn462Field_ref_mul(fs.a, fs.b))
    \/ Made("div", Bn462Field_div(fs.a, fs.b))
    \/ Made("ref_div", Bn462Field_ref_div(fs.a, fs.b))
    \* the library's powmod is specified for exponents that are not negative
    \/ fs.b.inner >= 0 /\ Made("pow", Bn462Field_pow(fs.a, fs.b))

GtPair ==
    MadeGt("pair", Bn462Curve_pair(G1_ref_mul(G1_generator, fs.a),
                                   G2_ref_mul(G2_generator, fs.b)))

GtArith ==
    \/ MadeGt("one", Gt_one)
    \/ \E bytes \in RandomBytes : MadeGt("random", Gt_random(bytes))
    \/ MadeGt("mul", Gt_mul(fs.gt, Bn462Curve_pair(G1_generator, G2_generator)))
    \/ MadeGt("pow", Gt_ref_pow(fs.gt, fs.a))
    \/ MadeGt("inverse", Gt_inverse(fs.gt))

\* to the bytes and back
GtBytes == MadeGt("bytes", Gt_from_bytes(Gt_to_bytes(fs.gt)))

NextField ==
    FieldConstruct \/ FieldRandom \/ FieldArith \/ GtPair \/ GtArith \/ GtBytes

SpecField == InitField /\ [][NextField]_vars

\* -------------------------- state machine of two concurrent path requests
\* a delete, a register or a rename (update with a new path that does not lie
\* below the old one), each of a path other than the root
PathTxOps ==
    LET names == ValidPaths \ {Root}
    IN {[kind |-> "delete", path |-> q, to |-> q] : q \in names}
       \cup {[kind |-> "register", path |-> q, to |-> q] : q \in names}
       \cup {[kind |-> "update", path |-> x[1], to |-> x[2]] :
                x \in {y \in names \X names : y[1] # y[2] /\ ~IsUnder(y[1], y[2])}}

InitPathTx ==
    /\ db = EmptyDb
    /\ last = Ready
    /\ ps = PolicyIdle
    /\ ws = WsIdle
    /\ bs = BootIdle
    /\ fs = FieldIdle
    /\ pt = PathTxIdle

\* the rows a statement of the transaction reads: the rows committed by then
\* (by any transaction) and what the transaction wrote itself
PathTxView(t) ==
    [EmptyDb EXCEPT
        !.paths = SetToBag((pt.rows \ pt.txs[t].dels) \cup pt.txs[t].adds)]

\* the transaction after a call that left the table as d
PathTxWrote(t, d) ==
    LET tx == pt.txs[t]
        before == BagToSet(PathTxView(t).paths)
        after == BagToSet(d.paths)
    IN [tx EXCEPT !.adds = (@ \ (before \ after)) \cup (after \ before),
                  !.dels = (@ \cup (before \ after)) \ (after \ before)]

\* the use-case returns an Err: the transaction is dropped, its locks with it
PathTxFailed(t, e) ==
    [pt.txs[t] EXCEPT !.pc = "rolled back", !.err = e.kind, !.adds = {},
                      !.dels = {}, !.locked = {}, !.agg = {}]

\* a row another open transaction has locked
LockedByOther(t, q) ==
    \E u \in PathTxs \ {t} : q \in pt.txs[u].locked

TheClaim == CHOOSE claim \in Claims : TRUE

\* begin_with_workspace_scope: no isolation level is asked for, no lock taken
PathTxBegin(t) ==
    /\ pt.txs[t].pc = "idle"
    /\ \E op \in PathTxOps :
        pt' = [pt EXCEPT !.txs[t] =
                [NoPathTx EXCEPT !.op = op,
                                 !.pc = IF op.kind = "register" THEN "service"
                                        ELSE "get_path"]]
    /\ UNCHANGED <<db, last, ps, ws, bs, fs>>

\* secret_service.get_path(..)?.ok_or(PathNotExists): the aggregate about to
\* be changed is loaded and its row locked (the call waits while another
\* transaction holds the row)
PathTxGetPath(t) ==
    LET tx == pt.txs[t]
        found == get_path(PathTxView(t), tx.op.path)
    IN /\ tx.pc = "get_path"
       /\ ~LockedByOther(t, tx.op.path)
       /\ pt' = [pt EXCEPT !.txs[t] =
                    IF found = {}
                    THEN PathTxFailed(t, ErrAt("PathNotExists", tx.op.path))
                    ELSE [tx EXCEPT !.pc = "service",
                                    !.agg = {Path_from(CHOOSE r \in found : TRUE)},
                                    !.locked = {tx.op.path}]]
       /\ UNCHANGED <<db, last, ps, ws, bs, fs>>

\* register_path, path.delete or path.update_path: the checks read the rows
\* (parent exists, not duplicated, child counts) without locking any
PathTxService(t) ==
    LET tx == pt.txs[t]
        d == PathTxView(t)
        agg == CHOOSE a \in tx.agg : TRUE
    IN /\ tx.pc = "service"
       /\ pt' = [pt EXCEPT !.txs[t] =
            CASE tx.op.kind = "register" ->
                    LET r == register_path(d, tx.op.path, {}, TheClaim, "none")
                    IN IF r.err.kind # "Ok" THEN PathTxFailed(t, r.err)
                       ELSE [PathTxWrote(t, r.db) EXCEPT !.pc = "commit"]
              [] tx.op.kind = "delete" ->
                    LET r == Path_delete(d, agg, TheClaim)
                    IN IF r.err.kind # "Ok" THEN PathTxFailed(t, r.err)
                       ELSE [tx EXCEPT !.pc = "persist", !.agg = {r.agg}]
              [] OTHER ->
                    LET r == Path_update_path(d, agg, tx.op.to, TheClaim)
                    IN IF r.err.kind # "Ok" THEN PathTxFailed(t, r.err)
                       ELSE [tx EXCEPT !.pc = "persist", !.agg = {r.agg}]]
       /\ UNCHANGED <<db, last, ps, ws, bs, fs>>

\* path.persist(&transaction): the DELETE or the UPDATEs, in the transaction
PathTxPersist(t) ==
    LET tx == pt.txs[t]
        r == Path_persist(PathTxView(t), CHOOSE a \in tx.agg : TRUE, "none")
    IN /\ tx.pc = "persist"
       /\ pt' = [pt EXCEPT !.txs[t] = [PathTxWrote(t, r.db) EXCEPT !.pc = "commit"]]
       /\ UNCHANGED <<db, last, ps, ws, bs, fs>>

\* transaction.commit(): the writes reach the table, the locks are released
PathTxCommit(t) ==
    LET tx == pt.txs[t]
    IN /\ tx.pc = "commit"
       /\ pt' = [pt EXCEPT !.rows = (@ \ tx.dels) \cup tx.adds,
                           !.txs[t] = [tx EXCEPT !.pc = "committed", !.adds = {},
                                                 !.dels = {}, !.locked = {},
                                                 !.agg = {}]]
       /\ UNCHANGED <<db, last, ps, ws, bs, fs>>

NextPathTx ==
    \/ \E t \in PathTxs : PathTxBegin(t)
    \/ \E t \in PathTxs : PathTxGetPath(t)
    \/ \E t \in PathTxs : PathTxService(t)
    \/ \E t \in PathTxs : PathTxPersist(t)
    \/ \E t \in PathTxs : PathTxCommit(t)

SpecPathTx == InitPathTx /\ [][NextPathTx]_vars

\* ------------------------------------------------------------------ claims
InUse(d, p) == count_child_paths(d, p) > 0 \/ count_child_secrets(d, p) > 0

\* C1: delete on an existing path whose child-path count or child-secret
\* count is above zero fails with PathIsInUse naming that path (once begin and
\* the lookup went through); the path is not removed, persist and commit are
\* never called and the transaction is not committed.
C1_DeleteInUseRefused ==
    last = Ready =>
        \A p \in ValidPaths, claim \in Claims, fault \in Faults :
            \A found \in one(get_path(db, p)) :
                (found # {} /\ InUse(db, p)) =>
                    LET o == delete(db, found, p, claim, fault)
                    IN /\ fault \notin {"begin", "service"}
                            => o.result = ErrAt("PathIsInUse", p)
                       /\ o.result.kind # "Ok"
                       /\ \A i \in 1..Len(o.calls) :
                            o.calls[i] \notin {"persist", "commit"}
                       /\ ~o.committed
                       /\ o.tx = db
                       /\ Visible(db, o) = db

\* a delete was refused because the path has a child path
C1_Witness ==
    /\ last = [op |-> "delete", kind |-> "PathIsInUse"]
    /\ db.secrets = {}
    /\ \E p \in StoredPaths(db) : count_child_paths(db, p) > 0

\* C2 (as stated): for every path and claim, delete succeeds if and only if
\* both counts are zero.
C2_DeleteIffCountsZero ==
    last = Ready =>
        \A p \in ValidPaths, claim \in Claims :
            \A found \in one(get_path(db, p)) :
                delete(db, found, p, claim, "none").result.kind = "Ok"
                    <=> ~InUse(db, p)

\* C2 (amended): delete succeeds only on a stored path whose two counts are
\* zero; on a stored path, with no database failure, it succeeds (and commits
\* the removal of that row) exactly when both counts are zero; on a path that
\* is not stored it fails with PathNotExists whatever the counts.
C2_DeleteStoredIffCountsZero ==
    last = Ready =>
        \A p \in ValidPaths, claim \in Claims, fault \in Faults :
            \A found \in one(get_path(db, p)) :
                LET o == delete(db, found, p, claim, fault)
                IN /\ o.result.kind = "Ok" => (found # {} /\ ~InUse(db, p))
                   /\ (found # {} /\ fault = "none") =>
                        (o.result.kind = "Ok" <=> ~InUse(db, p))
                   /\ (found # {} /\ fault = "none" /\ ~InUse(db, p)) =>
                        /\ o.committed
                        /\ BagCardinality(o.tx.paths) = BagCardinality(db.paths) - 1
                   /\ (found = {} /\ fault \notin {"begin", "service"}) =>
                        o.result = ErrAt("PathNotExists", p)

\* a delete went through
C2_Witness == last = [op |-> "delete", kind |-> "Ok"]

\* C3: every stored Path other than "/" has a stored Path equal to its
\* parent prefix.
C3_ParentStored ==
    \A r \in BagToSet(db.paths) :
        r.path # Root => Parent(r.path) \in StoredPaths(db)

\* C4: no two stored Path rows have the same path string.
C4_PathUnique ==
    \A r \in BagToSet(db.paths) :
        /\ db.paths[r] = 1
        /\ \A q \in BagToSet(db.paths) : q.path = r.path => q = r

\* C5: every stored SecretMetadata row's path names a stored Path.
C5_SecretPathStored == \A x \in db.secrets : x.path \in StoredPaths(db)

\* a delete was refused only because the path holds a secret
C5_Witness ==
    /\ last = [op |-> "delete", kind |-> "PathIsInUse"]
    /\ db.secrets # {}
    /\ \A p \in StoredPaths(db) : count_child_paths(db, p) = 0

\* C6: register of a (well-formed) path whose parent is not stored fails with
\* ParentPathNotExists carrying the path entered, unchanged by the use-case's
\* conversion; no row is inserted and nothing is committed.
C6_RegisterMissingParent ==
    last = Ready =>
        \A p \in ValidPaths, policies \in PolicyInputs, claim \in Claims,
           fault \in ReadFaults \ {"begin"} :
            (p # Root /\ Parent(p) \notin StoredPaths(db)) =>
                LET o == register(db, p, policies, claim, fault)
                IN /\ o.result = ErrAt("ParentPathNotExists", p)
                   /\ o.result.entered # {Parent(p)}
                   /\ o.tx = db
                   /\ ~o.committed
                   /\ Visible(db, o) = db

\* a register was refused for its missing parent
C6_Witness == last = [op |-> "register", kind |-> "ParentPathNotExists"]

\* C7: update with new_path equal to another, already stored path fails with
\* PathDuplicated; nothing is persisted or committed.
C7_UpdateToStoredName ==
    last = Ready =>
        \A p \in ValidPaths, q \in StoredPaths(db) \cap ValidPaths, claim \in Claims :
            \A found \in one(get_path(db, p)) :
                (found # {} /\ q # p) =>
                    LET o == update(db, found, p, {q}, {}, claim, "none")
                    IN /\ o.result.kind = "PathDuplicated"
                       /\ o.tx = db
                       /\ ~o.committed

\* C8: update with a new_path succeeds only if the new name is free and its
\* parent is stored ("/" has none); when the parent of new_path is not stored
\* the update fails (with ParentPathNotExists once begin and the lookup went
\* through) and every row keeps its name.
C8_UpdateNeedsFreeNameAndParent ==
    last = Ready =>
        \A p \in ValidPaths, q \in ValidPaths, pol \in NewPolicyInputs,
           claim \in Claims, fault \in Faults :
            \A found \in one(get_path(db, p)) :
                LET o == update(db, found, p, {q}, pol, claim, fault)
                IN /\ o.result.kind = "Ok" =>
                        /\ q \notin StoredPaths(db)
                        /\ q = Root \/ Parent(q) \in StoredPaths(db)
                   /\ (found # {} /\ q # Root /\ Parent(q) \notin StoredPaths(db)) =>
                        /\ o.result.kind # "Ok"
                        /\ fault \notin {"begin", "service"}
                            => o.result = ErrAt("ParentPathNotExists", q)
                        /\ Visible(db, o) = db

\* a rename was refused for the missing parent of the new name
C8_Witness == last = [op |-> "update", kind |-> "ParentPathNotExists"]

\* C9: get, update and delete of a path the service does not find return
\* PathNotExists carrying the entered path; they call nothing after the
\* lookup (no aggregate method, no persist, no commit) and write nothing.
C9_MissingPath ==
    last = Ready =>
        \A p \in ValidPaths, claim \in Claims, fault \in Faults \ {"begin", "service"} :
            p \notin StoredPaths(db) =>
                \A found \in one(get_path(db, p)) :
                    \A o \in {get(db, found, p, fault),
                              delete(db, found, p, claim, fault)}
                            \cup {update(db, found, p, n, pol, claim, fault) :
                                    n \in NewPathInputs, pol \in NewPolicyInputs} :
                        /\ o.result = ErrAt("PathNotExists", p)
                        /\ o.calls = <<"begin", "get_path">>
                        /\ ~o.committed
                        /\ o.tx = db

\* a get, an update or a delete did not find its path
C9_Witness ==
    /\ last.op \in {"get", "update", "delete"}
    /\ last.kind = "PathNotExists"

\* every outcome an operation may have in the current state
OutcomesAt(p, found) ==
    {get(db, found, p, f) : f \in ReadFaults}
    \cup {delete(db, found, p, c, f) : c \in Claims, f \in Faults}
    \cup {update(db, found, p, in.new_path, in.new_policies, c, in.fault) :
            in \in UpdateInputs, c \in Claims}
Outcomes ==
    {get_all(db, f) : f \in ReadFaults}
    \cup {create(db, n, f) : n \in VaultNames, f \in ReadFaults}
    \cup {register(db, p, s, c, f) :
            p \in PathInputs, s \in PolicyInputs, c \in Claims, f \in ReadFaults}
    \cup UNION {UNION {OutcomesAt(p, found) : found \in one(get_path(db, p))} :
                    p \in ValidPaths}

\* C10: an operation of PathUseCase or VaultUseCase.create that ends in an
\* error never committed its transaction, and the rows visible afterwards are
\* the rows from before it.
C10_ErrorRollsBack ==
    last = Ready =>
        \A o \in Outcomes :
            o.result.kind # "Ok" =>
                /\ ~o.committed
                /\ o.calls[Len(o.calls)] = "commit" => o.result.kind = "Anyhow"
                /\ Visible(db, o) = db

\* an operation failed after it had written rows, which are gone
C10_Witness ==
    /\ last.op \in {"register", "update", "vault_create"}
    /\ last.kind \in {"Anyhow", "Panic"}
    /\ \E o \in Outcomes : o.result.kind = last.kind /\ o.tx # db


\* C11: an operation of the path use-case opens one transaction, with
\* begin_with_workspace_scope(workspace_name), before any other call; every
\* service, aggregate and persist call and the commit are given that
\* transaction; and it commits at most once, as its last call (a request that
\* returned Ok has committed).
C11_OneScopedTransaction ==
    \A q \in Requests :
        LET req == ws.reqs[q]
            log == req.log
        IN \A uc \in req.uc :
            (uc.kind = "path" /\ log # <<>>) =>
                /\ log[1].call = "begin_with_workspace_scope"
                /\ log[1].schema = WorkspaceSchema(uc.workspace_name)
                /\ \A i \in 2..Len(log) :
                    /\ log[i].call # "begin_with_workspace_scope"
                    /\ log[i].tx = log[1].tx
                /\ \A i \in 1..Len(log) :
                    log[i].call = "commit" => i = Len(log) /\ req.status = "Ok"
                /\ req.status = "Ok" => log[Len(log)].call = "commit"
                /\ Cardinality({b[2] : b \in req.locals}) <= 1

\* an update of the name and the policies went through all its six calls
\* while the other request held a transaction of its own
C11_Witness ==
    \E q \in Requests, o \in Requests :
        /\ ws.reqs[q].status = "Ok"
        /\ ws.reqs[q].op = "update_both"
        /\ Len(ws.reqs[q].log) = 6
        /\ ws.reqs[o].status = "running"
        /\ ws.reqs[o].locals # {}

\* C12: each of the five use-cases of with_workspace(name) carries exactly
\* that name; with two requests interleaved in any way, every transaction a
\* request holds and every call it makes is scoped to the schema of its own
\* workspace, and a row written for a workspace is only ever found, committed
\* or pending, in that workspace's schema.
C12_WorkspaceIsolation ==
    /\ \A name \in Workspaces, kind \in UseCaseKinds :
        UseCaseOf(with_workspace(name), kind)
            = [kind |-> kind, workspace_name |-> name]
    /\ \A q \in Requests :
        LET req == ws.reqs[q]
        IN /\ \A uc \in req.uc : uc.workspace_name = req.name
           /\ \A b \in req.locals :
                /\ ws.txs[b[2]].open
                /\ ws.txs[b[2]].schema = WorkspaceSchema(req.name)
           /\ \A i \in 1..Len(req.log) :
                req.log[i].schema = WorkspaceSchema(req.name)
    /\ \A w \in Workspaces : \A r \in ws.schemas[w] : r.of = w
    /\ \A h \in TxIds :
        ws.txs[h].open =>
            \A r \in ws.txs[h].adds \cup ws.txs[h].dels :
                WorkspaceSchema(r.of) = ws.txs[h].schema

\* the two requests are in different workspaces, each with a pending write
\* in its transaction, over schemas that both hold rows
C12_Witness ==
    /\ ws.reqs["r1"].name = "w1" /\ ws.reqs["r2"].name = "w2"
    /\ \A q \in Requests :
        /\ ws.reqs[q].status = "running"
        /\ \E b \in ws.reqs[q].locals : ws.txs[b[2]].adds # {}
    /\ \A w \in Workspaces : ws.schemas[w] # {}

\* C13: register with an expression the parser rejects returns
\* InvalidExpression, issues no statement (not even the count of the name)
\* and inserts no row, whatever the name and wherever a database error waits.
C13_RegisterInvalidExpression ==
    \A id \in PolicyIds, name \in PolicyNames, fault \in PolicyFaults :
        LET o == PolicyService_register(ps.rows, id, name, UnbalancedExpr, fault)
        IN /\ o.err = Err("InvalidExpression")
           /\ o.stmts = <<>>
           /\ o.rows = ps.rows

\* an invalid expression was refused, with a policy stored, and no statement
\* was issued
C13_Witness ==
    /\ ps.last = [op |-> "register", kind |-> "InvalidExpression", stmts |-> <<>>]
    /\ ps.rows # {}

\* C14: register with a valid expression returns PolicyNameDuplicated
\* carrying the entered name and inserts nothing when a stored policy has the
\* name; otherwise (no database error) it inserts exactly one row, with that
\* name and expression.
C14_RegisterNameDuplicated ==
    \A id \in PolicyIds \ {r.id : r \in ps.rows}, name \in PolicyNames,
       expression \in {FrontendExpr, BackendExpr} :
        LET o == PolicyService_register(ps.rows, id, name, expression, "none")
            w == PolicyService_register(ps.rows, id, name, expression, "write")
        IN IF \E r \in ps.rows : r.name = name
           THEN /\ o.err = ErrAt("PolicyNameDuplicated", name)
                /\ o.rows = ps.rows
                /\ \A i \in 1..Len(o.stmts) : o.stmts[i].stmt # "INSERT"
                /\ w.err = o.err /\ w.rows = ps.rows
           ELSE /\ o.err = OkRes
                /\ o.rows \ ps.rows =
                    {[id |-> id, name |-> name, expression |-> expression]}
                /\ ps.rows \subseteq o.rows
                /\ w.rows = ps.rows

\* a register was refused for its name
C14_Witness ==
    /\ ps.last.op = "register"
    /\ ps.last.kind = "PolicyNameDuplicated"

\* C15: no two stored policies have the same name, and it is the count in
\* register and persist that keeps it so: run one transaction at a time, no
\* write of theirs is ever turned down by the unique index.
C15_PolicyNameUnique ==
    /\ \A r1 \in ps.rows, r2 \in ps.rows : r1.name = r2.name => r1 = r2
    /\ \A agg \in ps.agg :
        AccessCondition_persist(agg, ps.rows, "none").err # UniqueViolation
    /\ \A id \in PolicyIds \ {r.id : r \in ps.rows}, name \in PolicyNames,
          expression \in ExpressionInputs :
            PolicyService_register(ps.rows, id, name, expression, "none").err
                # UniqueViolation

\* a rename to the name of another policy was refused at persist
C15_Witness ==
    /\ ps.last.op = "persist"
    /\ ps.last.kind = "PolicyNameDuplicated"
    /\ Cardinality(ps.rows) = 2

\* C16: of two concurrent transactions that register a policy with, or
\* persist a rename of their policy to, the same name, at most one commits
\* with that name: the committed names stay unique, a transaction that
\* committed Ok holds the name, and no two did, though the count may have
\* passed in both.
C16_AtMostOneCommits ==
    LET won == {t \in RaceTxs : ps.txs[t].committed /\ ps.txs[t].result.kind = "Ok"}
    IN /\ \A r1 \in ps.rows, r2 \in ps.rows : r1.name = r2.name => r1 = r2
       /\ Cardinality(won) <= 1
       /\ \A t \in won :
            \E r \in ps.rows : r.id = PolicyOf(t).id /\ r.name = RaceName
       /\ \A t \in RaceTxs \ won :
            \A r \in ps.rows : r.id = PolicyOf(t).id => r.name # RaceName

\* both counts passed, one transaction committed the name and the write of
\* the other was rejected by the unique index
C16_Witness ==
    \E t \in RaceTxs, o \in RaceTxs :
        /\ ps.txs[t].committed /\ ps.txs[t].result.kind = "Ok"
        /\ ps.txs[o].pc = "done" /\ ~ps.txs[o].committed
        /\ ps.txs[o].result = UniqueViolation

\* C17: update_name(new) leaves the aggregate as it is when new is the
\* current or the staged name; otherwise it stages new and changes no other
\* field.
C17_UpdateNameFrame ==
    \A agg \in ps.agg, new_name \in PolicyNames :
        LET a == AccessCondition_update_name(agg, new_name)
        IN /\ a.id = agg.id /\ a.name = agg.name /\ a.expression = agg.expression
           /\ a.updated_expression = agg.updated_expression
           /\ a.deleted = agg.deleted
           /\ a.updated_name =
                IF new_name = agg.name \/ agg.updated_name = {new_name}
                THEN agg.updated_name ELSE {new_name}

\* a name is staged on the loaded aggregate
C17_Witness ==
    /\ ps.last.op = "update_name"
    /\ \E agg \in ps.agg : agg.updated_name # {} /\ agg.updated_name # {agg.name}

\* C18: update_name(n) twice stages what update_name(n) once stages; and
\* after load, update_name(n), persist went through, the same three steps on
\* a fresh load go through again and leave the rows as they are.
C18_UpdateNameIdempotent ==
    /\ \A agg \in ps.agg, n \in PolicyNames :
        AccessCondition_update_name(AccessCondition_update_name(agg, n), n)
            = AccessCondition_update_name(agg, n)
    /\ \A r \in ps.rows, n \in PolicyNames :
        \A a1 \in PolicyService_get(ps.rows, r.id) :
            LET p1 == AccessCondition_persist(
                          AccessCondition_update_name(a1, n), ps.rows, "none")
            IN p1.err.kind = "Ok" =>
                /\ \E x \in p1.rows : x.id = r.id /\ x.name = n
                /\ \A a2 \in PolicyService_get(p1.rows, r.id) :
                    LET p2 == AccessCondition_persist(
                                  AccessCondition_update_name(a2, n), p1.rows, "none")
                    IN p2.err = OkRes /\ p2.rows = p1.rows

\* a persist with nothing staged went through (the second run's persist)
C18_Witness ==
    /\ ps.last.op = "persist"
    /\ ps.last.kind = "Ok"
    /\ \E id \in PolicyIds :
        ps.last.stmts = <<[stmt |-> "UPDATE", id |-> id, name |-> {},
                           expression |-> {}]>>
    /\ Cardinality(ps.rows) = 2

\* C19: update_expression returns InvalidExpression for an expression the
\* parser rejects and leaves every field, the staged expression included, as
\* it is; for a valid expression equal to the current or the staged one it
\* returns Ok and changes nothing; another valid one it stages.
C19_UpdateExpressionValidates ==
    \A agg \in ps.agg, e \in ExpressionInputs :
        LET o == AccessCondition_update_expression(agg, e)
        IN IF e = UnbalancedExpr
           THEN o.err = Err("InvalidExpression") /\ o.agg = agg
           ELSE /\ o.err = OkRes
                /\ (e = agg.expression \/ agg.updated_expression = {e})
                    => o.agg = agg
                /\ o.agg.updated_expression \in {agg.updated_expression, {e}}
                /\ [o.agg EXCEPT !.updated_expression = {}]
                    = [agg EXCEPT !.updated_expression = {}]

\* an invalid expression was refused after a valid one had been staged
C19_Witness ==
    /\ ps.last.op = "update_expression"
    /\ ps.last.kind = "InvalidExpression"
    /\ \E agg \in ps.agg : agg.updated_expression # {}

\* the UPDATE persist issues for an aggregate
UpdateOf(agg) ==
    [stmt |-> "UPDATE", id |-> agg.id, name |-> agg.updated_name,
     expression |-> agg.updated_expression]

\* C20 (as stated): persist issues only a DELETE by id for a tombstone, and
\* otherwise an UPDATE by id that sets exactly the staged columns.
C20_PersistDeleteOrUpdate ==
    \A agg \in ps.agg :
        LET o == AccessCondition_persist(agg, ps.rows, "none")
        IN IF agg.deleted
           THEN o.stmts = <<[stmt |-> "DELETE", id |-> agg.id]>>
           ELSE \E i \in 1..Len(o.stmts) : o.stmts[i] = UpdateOf(agg)

\* C20 (amended): for a tombstone persist issues only a DELETE by id, staged
\* fields or not; otherwise, with a name staged, it first counts the rows of
\* that name and, if there is one, returns PolicyNameDuplicated and issues no
\* UPDATE; else its one write is an UPDATE by id that sets the name column
\* iff a name is staged, the expression column iff an expression is staged
\* and no other column.
C20_PersistDeleteOrCheckedUpdate ==
    \A agg \in ps.agg, fault \in PolicyFaults :
        LET o == AccessCondition_persist(agg, ps.rows, fault)
            count == IF agg.updated_name = {} THEN <<>>
                     ELSE <<[stmt |-> "COUNT",
                             name |-> CHOOSE n \in agg.updated_name : TRUE]>>
            taken == \E r \in ps.rows : agg.updated_name = {r.name}
        IN IF agg.deleted
           THEN /\ o.stmts = <<[stmt |-> "DELETE", id |-> agg.id]>>
                /\ fault # "write" => o.rows = {r \in ps.rows : r.id # agg.id}
           ELSE IF agg.updated_name # {} /\ (fault = "count" \/ taken)
           THEN /\ o.stmts = count
                /\ o.rows = ps.rows
                /\ fault # "count" => o.err.kind = "PolicyNameDuplicated"
           ELSE /\ o.stmts = count \o <<UpdateOf(agg)>>
                /\ fault = "none" =>
                    /\ o.err = OkRes
                    /\ \A r \in ps.rows : r.id # agg.id => r \in o.rows
                    /\ \A r \in ps.rows : r.id = agg.id =>
                        [id |-> r.id,
                         name |-> IF agg.updated_name = {} THEN r.name
                                  ELSE CHOOSE n \in agg.updated_name : TRUE,
                         expression |->
                            IF agg.updated_expression = {} THEN r.expression
                            ELSE CHOOSE e \in agg.updated_expression : TRUE]
                        \in o.rows
                    /\ Cardinality(o.rows) = Cardinality(ps.rows)

\* a tombstone with a staged name was persisted by a DELETE alone
C20_Witness ==
    /\ ps.last.op = "persist"
    /\ \E id \in PolicyIds :
        ps.last.stmts = <<[stmt |-> "DELETE", id |-> id]>>
    /\ ps.last.kind = "Ok"

C27_CreateNeverPanics ==
    /\ last.op = "vault_create" => last.kind # "Panic"
    /\ last = Ready =>
        \A name \in VaultNames :
            LET o == create(db, name, "service")
            IN o.result.kind \notin {"Ok", "Panic"} /\ ~o.committed


\* the calls a start-up made, in their order
BootLog == bs.out.log
Before(log, firsts, seconds) ==
    \A i, j \in 1..Len(log) :
        (log[i] \in firsts /\ log[j] \in seconds) => i < j

\* C22: in every start-up path (nebula-authority, nebula-backbone), with no
\* jwks_refresh_interval configured a start-up that succeeds fetched the JWKS
\* exactly once and serves it from a StaticJwksDiscovery, and a
\* CachedRemoteJwksDiscovery is created only when an interval is configured.
C22_FetchOnceWithoutInterval ==
    (bs.server \in {"nebula-authority", "nebula-backbone"}
        /\ bs.out.result = "Ok") =>
        /\ bs.refresh = {} =>
            /\ Called(BootLog, "StaticJwksDiscovery::new")
            /\ bs.out.fetches = 1
        /\ Called(BootLog, "CachedRemoteJwksDiscovery::new") => bs.refresh # {}

\* C23: when the JWKS endpoint does not answer at start-up, with or without
\* a refresh interval, the start-up of nebula-authority and of
\* nebula-backbone ends in an error: no Application, server::run not reached.
C23_FailedFetchIsFatal ==
    (bs.server \in {"nebula-authority", "nebula-backbone"} /\ ~bs.jwks_up) =>
        /\ bs.out.result = "Err"
        /\ ~Called(BootLog, "Application")
        /\ ~Called(BootLog, "Application::new")
        /\ ~Called(BootLog, "server::run")

\* C24 (as stated): in nebula-backbone and nebula-authorization every
\* migration has run before any service or the Application is constructed,
\* and a migration that fails ends the start-up in an error with no
\* Application.
C24_MigrationsBeforeServices ==
    bs.server \in {"nebula-backbone", "nebula-authorization"} =>
        /\ Before(BootLog, MigrationCalls, ServiceCalls \cup {"Application"})
        /\ (bs.fault \in MigrationCalls /\ Called(BootLog, bs.fault)) =>
            bs.out.result = "Err" /\ ~Called(BootLog, "Application")

\* C24 (amended): every migration has run before the Application is
\* constructed (in nebula-authorization before its services too; the
\* backbone constructs its services before it migrates), and a migration
\* that fails ends the start-up in an error with no Application.
C24_MigrationsBeforeApplication ==
    bs.server \in {"nebula-backbone", "nebula-authorization"} =>
        /\ Before(BootLog, MigrationCalls, {"Application"})
        /\ bs.server = "nebula-authorization" =>
            Before(BootLog, MigrationCalls, ServiceCalls)
        /\ (bs.fault \in MigrationCalls /\ Called(BootLog, bs.fault)) =>
            bs.out.result = "Err" /\ ~Called(BootLog, "Application")

C24_Witness ==
    /\ bs.server = "nebula-backbone"
    /\ bs.fault = "migrate"
    /\ Called(BootLog, "migrate")
    /\ Called(BootLog, "WorkspaceService::new")
    /\ bs.out.result = "Err"

\* C25: a static start-up of the backbone on a control schema that has the
\* configured workspace and its parameter succeeds, commits, and leaves the
\* workspaces and the parameters as they were.
C25_RestartIdempotent ==
    \A w \in Workspaces, refresh \in RefreshIntervals :
        (w \in bs.db.workspaces /\ w \in bs.db.parameters) =>
            LET o == init([kind |-> "Static", name |-> w], refresh, "none", bs.db)
            IN /\ o.result = "Ok"
               /\ Called(o.log, "commit")
               /\ o.db = bs.db

C25_Witness ==
    /\ bs.server = "nebula-backbone"
    /\ bs.workspace.kind = "Static"
    /\ Called(BootLog, "workspace_service.create: WorkspaceNameConflicted")
    /\ Called(BootLog, "parameter_service.create: ParameterAlreadyCreated")
    /\ Called(BootLog, "commit")
    /\ bs.out.result = "Ok"
    /\ bs.db = [workspaces |-> {bs.workspace.name},
                parameters |-> {bs.workspace.name}]

\* C26: the signing material of nebula-authorization: without a configured
\* JWKS, or with an empty one, the default key set and its key id; with a
\* JWKS and no key id, that JWKS and the default key id; with both, both as
\* given; and always the key id of a key of the chosen set.
C26_SigningMaterial ==
    (bs.server = "nebula-authorization" /\ bs.out.result = "Ok") =>
        /\ bs.jwks \in {{}, {{}}} =>
            bs.out.jwks = JwkSet_default /\ bs.out.kid = JWK_SET_DEFAULT_KEY_ID
        /\ (bs.jwks \notin {{}, {{}}} /\ bs.kid = {}) =>
            bs.out.jwks \in bs.jwks /\ bs.out.kid = JWK_SET_DEFAULT_KEY_ID
        /\ (bs.jwks \notin {{}, {{}}} /\ bs.kid # {}) =>
            bs.out.jwks \in bs.jwks /\ bs.out.kid \in bs.kid
        /\ bs.out.kid \in bs.out.jwks


\* C28: the pairing is bilinear: for all field elements a and b,
\* pair(G1::generator * a, G2::generator * b) is
\* pair(G1::generator, G2::generator) to the power a * b (a product of the
\* field, mod q).
C28_PairBilinear ==
    fs.op = "pair" =>
        fs.gt = Gt_ref_pow(Bn462Curve_pair(G1_generator, G2_generator),
                           Bn462Field_ref_mul(fs.a, fs.b))

C28_Witness ==
    /\ fs.op = "pair"
    /\ fs.a.inner > 1 /\ fs.b.inner > 1
    /\ fs.gt # Gt_one

\* C29: every element of Gt (one, a pairing, a product, a power, an inverse,
\* a random element) goes to a vector of MSG_SIZE bytes and comes back from
\* it as the same element.
C29_GtRoundTrip ==
    /\ Len(Gt_to_bytes(fs.gt)) = MSG_SIZE
    /\ Gt_from_bytes(Gt_to_bytes(fs.gt)) = fs.gt

C29_Witness ==
    /\ fs.op = "bytes"
    /\ fs.gt.inner > 1
    /\ Gt_to_bytes(fs.gt)[1] = fs.gt.inner

\* C30: every Bn462Field value an operation produced (new, one, new_int,
\* new_ints, From<u64>, random, random_within_order, add, sub, neg, mul, div,
\* pow) is reduced: its inner is in 0..q-1.
C30_FieldReduced ==
    /\ fs.a.inner \in 0..(MODULUS - 1)
    /\ fs.b.inner \in 0..(MODULUS - 1)


\* the draws of the generator that random_within_order turns into r
DrawsOf(r) ==
    {rng \in [1..1 -> BigValues] : Bn462Field_random_within_order(rng).inner = r}

\* C31: random_within_order returns a value in 0..q-1, and it is uniform:
\* every residue in 0..q-1 comes from the same number of draws of the
\* underlying random BIG.
C31_RandomWithinOrderUniform ==
    /\ fs.op = "random_within_order" => fs.a.inner \in 0..(MODULUS - 1)
    /\ \A r, t \in 0..(MODULUS - 1) :
        Cardinality(DrawsOf(r)) = Cardinality(DrawsOf(t))

\* C39: for every u64 x, from(x) is the field element x mod q, and for every
\* i64 x, new_int(x) is the field element x mod q.
C39_IntsReduced ==
    /\ fs.op \in {"from", "new_int"} => fs.a.inner \in 0..(MODULUS - 1)
    /\ \A x \in U64 : Bn462Field_from(x).inner = x % MODULUS
    /\ \A x \in I64 : Bn462Field_new_int(x).inner = x % MODULUS

\* C40: for all field elements a and all b not congruent to 0 mod q,
\* (a / b) * b == a; Div and RefDiv return equal results; and
\* (a - b) + b == a. (RefDiv takes its operands by reference: fs.a and fs.b
\* are the operands, unchanged.)
C40_DivisionInverts ==
    /\ Bn462Field_eq(Bn462Field_div(fs.a, fs.b), Bn462Field_ref_div(fs.a, fs.b))
    /\ Bn462Field_eq(Bn462Field_ref_add(Bn462Field_ref_sub(fs.a, fs.b), fs.b), fs.a)
    /\ fs.b.inner % MODULUS # 0 =>
        Bn462Field_eq(Bn462Field_ref_mul(Bn462Field_ref_div(fs.a, fs.b), fs.b), fs.a)


\* the mutations of the aggregate
Mutations == {"update_name", "update_expression", "delete"}

\* C34: update_name, update_expression and delete never change the id, the
\* name or the expression of the aggregate and issue no statement; the
\* stored rows change only in a step of persist (or of register); and an
\* aggregate marked deleted stays so under every later mutation.
C34_MutationsAreStaged ==
    [][/\ ps'.rows # ps.rows => ps'.last.op \in {"persist", "register"}
       /\ ps'.last.op \in Mutations =>
            /\ ps'.last.stmts = <<>>
            /\ \A agg \in ps.agg :
                \A x \in ps'.agg :
                    /\ x.id = agg.id
                    /\ x.name = agg.name
                    /\ x.expression = agg.expression
                    /\ agg.deleted => x.deleted]_vars

C34_Witness ==
    /\ ps.last.op = "update_name"
    /\ \E agg \in ps.agg : agg.deleted /\ agg.updated_name # {}

\* the name persist leaves in the row of an aggregate
NameToPersist(agg) ==
    IF agg.updated_name = {} THEN agg.name
    ELSE CHOOSE n \in agg.updated_name : TRUE

\* C35: after update_name(n) on a loaded aggregate, whatever was staged
\* before, the name persist will leave in the row is n.
C35_LastNameWins ==
    \A agg \in ps.agg, n \in PolicyNames :
        NameToPersist(AccessCondition_update_name(agg, n)) = n

\* C36: persist of an AccessCondition with nothing staged and not deleted
\* sends no UPDATE and no DELETE; persist of a Workspace not deleted sends no
\* statement, and of a deleted one exactly one DELETE by its id.
C36_NothingStagedNothingSent ==
    /\ \A agg \in ps.agg, fault \in PolicyFaults :
        (agg.updated_name = {} /\ agg.updated_expression = {} /\ ~agg.deleted) =>
            Sent(AccessCondition_persist(agg, ps.rows, fault).stmts) = <<>>
    /\ \A name \in Workspaces, fault \in PolicyFaults :
        /\ Workspace_persist([id |-> name, name |-> name, deleted |-> FALSE],
                             fault).stmts = <<>>
        /\ Workspace_persist([id |-> name, name |-> name, deleted |-> TRUE],
                             fault).stmts = <<[stmt |-> "DELETE", id |-> name]>>
    /\ (ps.last.op = "workspace_persist" /\ ps.last.stmts # <<>>) =>
        Len(ps.last.stmts) = 1 /\ ps.last.stmts[1].stmt = "DELETE"

C36_Witness ==
    /\ ps.last.op = "persist"
    /\ ps.last.kind = "Ok"
    /\ ps.last.stmts # <<>>
    /\ Sent(ps.last.stmts) = <<>>


\* how often a start-up made a call
Calls(log, call) == Cardinality({i \in 1..Len(log) : log[i] = call})

\* C37: in static-mode init of the backbone the start-up transaction, once
\* begun, ends in exactly one of commit and rollback: commit iff the
\* workspace creation returned Ok or WorkspaceNameConflicted and the
\* parameter creation Ok or ParameterAlreadyCreated; on any other error of
\* either it is rolled back and init returns an error, and after such an
\* error of the workspace creation the parameter creation is not attempted.
C37_CommitOrRollback ==
    (/\ bs.server = "nebula-backbone"
     /\ bs.workspace.kind = "Static"
     /\ Called(BootLog, "begin_with_workspace_scope")
     /\ bs.fault # "begin_with_workspace_scope") =>
        LET created == Called(BootLog, "workspace_service.create")
                \/ Called(BootLog, "workspace_service.create: WorkspaceNameConflicted")
            set == Called(BootLog, "parameter_service.create")
                \/ Called(BootLog, "parameter_service.create: ParameterAlreadyCreated")
        IN /\ Calls(BootLog, "commit") + Calls(BootLog, "rollback") = 1
           /\ Called(BootLog, "commit") <=> (created /\ set)
           /\ Called(BootLog, "workspace_service.create: Err") =>
                /\ Called(BootLog, "rollback")
                /\ ~set
                /\ ~Called(BootLog, "parameter_service.create: Err")
                /\ bs.out.result = "Err"
           /\ Called(BootLog, "parameter_service.create: Err") =>
                Called(BootLog, "rollback") /\ bs.out.result = "Err"

C37_Witness ==
    /\ bs.server = "nebula-backbone"
    /\ bs.workspace.kind = "Static"
    /\ Called(BootLog, "workspace_service.create: WorkspaceNameConflicted")
    /\ Called(BootLog, "parameter_service.create: Err")
    /\ Called(BootLog, "rollback")
    /\ bs.out.result = "Err"


\* secret::Error: the variants that carry an entered_path, those that carry
\* nothing, and Anyhow with its message
SecretErrors ==
    {ErrAt(k, p) : k \in {"InvalidPath", "ParentPathNotExists",
                          "PathDuplicated", "PathIsInUse"}, p \in PathInputs}
    \cup {Err(k) : k \in {"InvalidPathPolicy", "AccessDenied",
                          "InvalidSecretIdentifier", "SecretNotExists",
                          "IdentifierConflicted", "InvalidSecretPolicy"}}
    \cup {[kind |-> "Anyhow", entered |-> {}, msg |-> "some error"], DbErr}

\* C38: the path use-case converts InvalidPath, ParentPathNotExists,
\* PathDuplicated and PathIsInUse to the same kind with the same
\* entered_path, InvalidPathPolicy and AccessDenied to the same kind, and
\* every other error of the service, and every database error, to Anyhow
\* with the message it had.
C38_ErrorMapping ==
    /\ last.kind \notin {"InvalidSecretIdentifier", "SecretNotExists",
                         "IdentifierConflicted", "InvalidSecretPolicy"}
    /\ \A e \in SecretErrors :
        LET m == ErrorFrom(e)
        IN /\ e.kind \in {"InvalidPath", "ParentPathNotExists",
                          "PathDuplicated", "PathIsInUse"} =>
                m.kind = e.kind /\ m.entered = e.entered
           /\ e.kind \in {"InvalidPathPolicy", "AccessDenied"} => m.kind = e.kind
           /\ e.kind \in {"InvalidSecretIdentifier", "SecretNotExists",
                          "IdentifierConflicted", "InvalidSecretPolicy",
                          "Anyhow"} =>
                m.kind = "Anyhow" /\ m.msg = e.msg
           /\ ErrorFromDbErr(e).kind = "Anyhow" /\ ErrorFromDbErr(e).msg = e.msg

C38_Witness ==
    /\ last.op = "get_all"
    /\ last.kind = "Anyhow"


\* the request is about to issue the commit of its operation, every call
\* before it having returned Ok (persist among them, for delete and update)
Committing(req) ==
    /\ req.status = "running"
    /\ req.body[req.pc].call = "commit"
    /\ Len(req.log) = req.pc - 1
    /\ \A i \in 1..(req.pc - 1) : req.log[i].call = req.body[i].call
    /\ req.op \in {"delete", "update_path", "update_policies", "update_both",
                   "update_none"} =>
        \E i \in 1..Len(req.log) :
            /\ req.log[i].call = "persist"
            /\ req.log[i].tx = TxOf(req, req.body[req.pc].tx)

\* C33: a step that cancels a running request closes the transactions the
\* request held and leaves the rows other transactions see as they were;
\* the committed rows change only in a step in which a request issues its
\* commit, after every call before it (persist, for delete and update; the
\* service call, for register) has returned Ok.
C33_CancelRollsBack ==
    [][/\ \A q \in Requests :
            (ws.reqs[q].status = "running" /\ ws'.reqs[q].status = "Cancelled") =>
                /\ ws'.schemas = ws.schemas
                /\ \A b \in ws.reqs[q].locals : ~ws'.txs[b[2]].open
                /\ \A h \in TxIds : ws'.txs[h].open => ws'.txs[h] = ws.txs[h]
       /\ ws'.schemas # ws.schemas =>
            \E q \in Requests :
                Committing(ws.reqs[q]) /\ ws'.reqs[q].status \in {"Ok", "running"}
      ]_vars

\* a request cancelled between its persist and its commit, its row nowhere
C33_Witness ==
    \E q \in Requests :
        LET req == ws.reqs[q]
        IN /\ req.status = "Cancelled"
           /\ req.op \in {"update_path", "update_both"}
           /\ BodyOf(req.op)[req.pc].call = "commit"
           /\ BodyOf(req.op)[req.pc - 1].call = "persist"
           /\ \A h \in TxIds : ~ws.txs[h].open
           /\ \A w \in Workspaces : ws.schemas[w] = {}


\* the two transactions have committed a delete of p and a register of, or a
\* rename to, a path directly below p
BothCommitted(t, u) ==
    /\ pt.txs[t].pc = "committed" /\ pt.txs[t].op.kind = "delete"
    /\ pt.txs[u].pc = "committed" /\ pt.txs[u].op.kind \in {"register", "update"}
    /\ Parent(pt.txs[u].op.to) = pt.txs[t].op.path

\* C32: of a transaction that deletes p and a concurrent one that registers
\* p/c (or renames a path to p/c) never both commit, whatever the
\* interleaving, and in every committed state the parent of every path other
\* than the root has a row.
C32_DeleteAndChildNeverBothCommit ==
    /\ \A t, u \in PathTxs : ~BothCommitted(t, u)
    /\ \A r \in pt.rows : r.path # Root => Parent(r.path) \in {x.path : x \in pt.rows}

====
